---- MODULE Spec2Model ----
(***************************************************************************)
(* A state-machine model of CopilotClient (cpp/src/client.cpp): the        *)
(* connection state machine (start / stop / forceStop), the session        *)
(* registry (createSession / resumeSession), the models cache, the         *)
(* spawned subprocess and the inbound session lookups, together with the   *)
(* request/response correlation engine (JsonRpcClient) the client issues   *)
(* its calls through.                                                      *)
(*                                                                         *)
(* Spec    : one application thread driving the client API step by step,   *)
(*           the server answering its calls, and the read loop looking up  *)
(*           sessions for inbound requests at any point in between.        *)
(* SpecRpc : the correlation engine with several concurrent callers.       *)
(***************************************************************************)
EXTENDS Integers, Sequences, FiniteSets, TLC

\* ------------------------------------------------------------------ bounds

\* Most subprocesses this client may have spawned and not yet reaped.
MaxProcs == 2
\* Most call ids one JsonRpcClient instance hands out in SpecRpc.
MaxCalls == 3
\* Most response frames the server sends in SpecRpc.
MaxFrames == 3
\* Most lifecycle subscribers ever registered.
MaxSubs == 2
\* Most events in one session's log when another session.event is taken up.
MaxLog == 2

\* --------------------------------------------------------------- constants

\* The protocol version compiled into the SDK (copilot/sdk_protocol_version.h).
SDK_PROTOCOL_VERSION == 2

\* Application threads calling the client API.
Threads == {"t1", "t2"}
\* The threads that Spec lets run.
MainThreads == {"t1"}

\* The session ids the server hands out, in the order std::map keeps them.
SessionSeq == <<"s1", "s2">>
SessionIds == {SessionSeq[i] : i \in DOMAIN SessionSeq}
ToolNames == {"get_weather"}

\* A SessionConfig / ResumeSessionConfig, reduced to what createSession reads
\* when it registers handlers: the tools and the three optional callbacks.
NoConfig == [tools |-> {}, perm |-> FALSE, input |-> FALSE, hooks |-> FALSE]

\* The configurations the application passes: nothing supplied, tools alone,
\* the three callbacks alone, and everything supplied.
Configs ==
    {NoConfig,
     [NoConfig EXCEPT !.tools = ToolNames],
     [tools |-> {}, perm |-> TRUE, input |-> TRUE, hooks |-> TRUE],
     [tools |-> ToolNames, perm |-> TRUE, input |-> TRUE, hooks |-> TRUE]}

\* The protocolVersion field of a ping response: absent ({}) or one number.
PingVersions == {{}} \cup {{v} : v \in {SDK_PROTOCOL_VERSION - 1, SDK_PROTOCOL_VERSION, SDK_PROTOCOL_VERSION + 1}}

\* What listModels can get back: no "models" key is read as the empty list.
ModelLists == {<<>>, <<"m1">>}

Pids == 1 .. MaxProcs
\* processPid_ when no subprocess is recorded.
NoPid == -1

VARIABLES
    \* ---- CopilotClient fields
    state,              \* state_
    options,            \* options_, as far as the client reads it
    isExternalServer,   \* isExternalServer_
    rpcClient,          \* rpcClient_ is non-null
    processPid,         \* processPid_ (NoPid for -1)
    fdsOpen,            \* stdinWriteFd_ / stdoutReadFd_ are >= 0
    sessions,           \* sessions_ : session id -> session
    modelsCache,        \* modelsCache_ : <<>> when empty, <<list>> when set
    \* ---- the operating system, as far as this client touches it
    procs,              \* running subprocesses this client spawned
    lastSignal,         \* the kill() of the running / last operation, or NoSignal
    \* ---- each application thread
    pc,                 \* where the thread is in the operation it runs
    op,                 \* the API operation the thread called last
    ret,                \* how that call ended: "none" (running), "ok", "throw"
    loc,                \* that call's local variables
    req,                \* the outbound request the thread issued last
    \* ---- observations
    hs,                 \* what the running / last operation did, in order
    lastLookup,         \* what the read loop's last session lookup found
    modelsAsked,        \* a models.list call was issued since the last successful
                        \* start() and since the last stop() / forceStop()
    \* ---- JsonRpcClient (SpecRpc)
    rpcRunning,         \* the engine's read loop runs
    handlers,           \* the methods a request handler is installed for, on the
                        \* RPC client made last
    nextId,             \* the next call id
    pending,            \* outstanding table: call id -> caller
    calls,              \* every call issued: id -> [caller, n, how]
    wire,               \* ids of the response frames sent and not yet read
    sent,               \* number of response frames the server has sent
    \* ---- inbound requests (SpecIn, SpecBusy)
    inb,                \* per worker: the inbound frame it handles, and how far it is
    sMutex,             \* the holder of sessionsMutex_, or "none"
    lcMutex,            \* the holder of lifecycleMutex_, or "none"
    lifecycleHandlers,  \* lifecycleHandlers_ : sequence of [id, eventType]
    nextLifecycleId,    \* nextLifecycleId_
    unsubscribed,       \* ids whose unsubscribe function has returned
    eventLog            \* per session: the events dispatched to it, in order

clientVars == <<state, options, isExternalServer, rpcClient, processPid, fdsOpen,
                sessions, modelsCache>>
osVars == <<procs, lastSignal>>
threadVars == <<pc, op, ret, loc, req>>
obsVars == <<hs, lastLookup, modelsAsked>>
engineVars == <<nextId, pending, calls, wire, sent>>
rpcVars == <<rpcRunning, engineVars, handlers>>

\* Set by the constructor, never changed afterwards.
cfgVars == <<options, isExternalServer>>

inVars == <<inb, sMutex, lcMutex, lifecycleHandlers, nextLifecycleId, unsubscribed, eventLog>>
\* The same without sessionsMutex_.
inRest == <<inb, lcMutex, lifecycleHandlers, nextLifecycleId, unsubscribed, eventLog>>

vars == <<clientVars, osVars, threadVars, obsVars, rpcVars, inVars>>

\* The six methods the server calls on the client.
InboundMethods ==
    {"session.event", "session.lifecycle", "tool.call", "permission.request",
     "userInput.request", "hooks.invoke"}

NoSignal == [pid |-> NoPid, sig |-> "none", wait |-> "none"]
\* A call a thread made through the RPC client: its method, the id it was
\* sent under, how the wait ended, the id of the response frame that ended it,
\* and the fields of the result the client reads.
NoReq == [method |-> "none", id |-> 0, status |-> "none", reply |-> 0,
          ver |-> {}, sid |-> "", models |-> <<>>, params |-> {},
          success |-> FALSE]

\* request() threw: an error response, a closed connection, a timeout.
Failed(r) == r.status \in {"error", "closed", "timeout"}
\* request() came back, with a result or with a failure.
Completed(r) == r.status = "ok" \/ Failed(r)
NoSession == [sid |-> "", tools |-> {}, perm |-> FALSE, input |-> FALSE, hooks |-> FALSE,
              cfg |-> NoConfig]
NoLoc == [cont |-> "none", kind |-> "none", cfg |-> NoConfig, sessionId |-> SessionSeq[1],
          cur |-> NoSession, list |-> <<>>, snapshot |-> {}, attempted |-> <<>>,
          failed |-> {}, errors |-> <<>>]

\* The threads the RPC client runs inbound handlers on.
Workers == {"w1", "w2"}

\* An inbound frame, reduced to what the six handlers read: the method, whether
\* sessionId is present and its value, whether toolCallId is non-empty, the
\* tool name, whether arguments / input is present, whether the method's
\* payload is there (permissionRequest, a non-empty question, a non-empty
\* hookType, event), and the type of a lifecycle event ("" when absent).
NoFrame == [method |-> "none", hasSid |-> FALSE, sid |-> "", callId |-> FALSE, tool |-> "",
            hasArgs |-> FALSE, payload |-> FALSE, type |-> ""]

\* What a handler hands back to the RPC client: a result, a protocol error
\* (code, msg), or nothing to send.
NoResult == [kind |-> "none", code |-> 0, msg |-> "", body |-> <<>>]

\* A worker: its frame, its place in the handler, the handler's locals (the
\* session found, the lifecycle snapshot and what is left of it), the
\* application callbacks invoked for this frame, the subscriptions that were
\* ended before the frame arrived, and the handler's answer.
NoInb == [frame |-> NoFrame, pc |-> "idle", session |-> "", found |-> NoSession,
          snapshot |-> <<>>, todo |-> <<>>,
          invoked |-> <<>>, raised |-> "none", output |-> "none", gone |-> {},
          result |-> NoResult]

InitIn ==
    /\ inb = [w \in Workers |-> NoInb]
    /\ sMutex = "none"
    /\ lcMutex = "none"
    /\ lifecycleHandlers = <<>>
    /\ nextLifecycleId = 1
    /\ unsubscribed = {}
    /\ eventLog = <<>>

\* -------------------------------------------------------------- constructor

\* The CopilotClientOptions an application can pass, reduced to what the
\* client branches on: whether cliUrl is set, useStdio, whether cliPath is the
\* empty string, and autoStart.
ClientOptions ==
    [cliUrl : BOOLEAN, useStdio : BOOLEAN, cliPathEmpty : BOOLEAN, autoStart : BOOLEAN]

\* CopilotClient::CopilotClient, line 33: the server counts as external only
\* when a cliUrl is given together with useStdio or a non-empty cliPath.
CtorIsExternal(o) ==
    o.cliUrl /\ (o.useStdio \/ ~o.cliPathEmpty)

\* options_ after the constructor, line 45: useStdio is cleared for an
\* external server.
CtorOptions(o) ==
    IF CtorIsExternal(o) THEN [o EXCEPT !.useStdio = FALSE] ELSE o

InitRpc ==
    /\ rpcRunning = FALSE
    /\ nextId = 1
    /\ pending = <<>>
    /\ calls = <<>>
    /\ wire = {}
    /\ sent = 0
    /\ handlers = {}

Init ==
    /\ state = "Disconnected"
    /\ \E o \in ClientOptions :
           /\ options = CtorOptions(o)
           /\ isExternalServer = CtorIsExternal(o)
    /\ rpcClient = FALSE
    /\ processPid = NoPid
    /\ fdsOpen = FALSE
    /\ sessions = <<>>
    /\ modelsCache = <<>>
    /\ procs = {}
    /\ lastSignal = NoSignal
    /\ pc = [t \in Threads |-> "idle"]
    /\ op = [t \in Threads |-> "none"]
    /\ ret = [t \in Threads |-> "none"]
    /\ loc = [t \in Threads |-> NoLoc]
    /\ req = [t \in Threads |-> NoReq]
    /\ hs = <<>>
    /\ lastLookup = "none"
    /\ modelsAsked = FALSE
    /\ InitRpc
    /\ InitIn

\* ------------------------------------------------------------ thread helpers

\* The running operation returns to the application.
Return(t, outcome) ==
    /\ pc' = [pc EXCEPT ![t] = "idle"]
    /\ ret' = [ret EXCEPT ![t] = outcome]

Goto(t, label) ==
    /\ pc' = [pc EXCEPT ![t] = label]
    /\ UNCHANGED ret

\* rpcClient_->request(method, params): the frame is written and the caller waits.
Request(t, method) ==
    req' = [req EXCEPT ![t] = [NoReq EXCEPT !.method = method, !.status = "waiting"]]

Entry(o) ==
    CASE o = "start" -> "start"
      [] o = "stop" -> "stop"
      [] o = "forceStop" -> "fstop"
      [] o = "listModels" -> "models"
      [] OTHER -> "create"

\* An application thread calls an operation of the client. What the previous
\* call left to look at (its locals, its request, the handshake log, its
\* signal, the last lookup) is forgotten.
CallOp(t, o) ==
    /\ pc[t] = "idle"
    /\ op' = [op EXCEPT ![t] = o]
    /\ pc' = [pc EXCEPT ![t] = Entry(o)]
    /\ IF o \in {"createSession", "resumeSession"}
       THEN \E c \in Configs :
              loc' = [loc EXCEPT ![t] = [NoLoc EXCEPT !.kind = o, !.cfg = c]]
       ELSE loc' = [loc EXCEPT ![t] = NoLoc]
    /\ ret' = [ret EXCEPT ![t] = "none"]
    /\ req' = [req EXCEPT ![t] = NoReq]
    /\ hs' = <<>>
    /\ lastSignal' = NoSignal
    /\ lastLookup' = "none"
    /\ UNCHANGED <<clientVars, inVars, procs, rpcVars, modelsAsked>>

Operations == {"start", "stop", "forceStop", "createSession", "resumeSession", "listModels"}

\* The application calls any operation of the client.
Call(t) == \E o \in Operations : CallOp(t, o)

\* ------------------------------------------------------------------ start()

\* Mutant: start() without its early return.
StartNeverNoop == FALSE

\* start(), line 69: nothing to do when already connected.
StartIsNoop == state = "Connected"

\* Mutant: the catch block rethrows without recording the failure.
CatchKeepsConnecting == "Connecting"

\* The state the catch block of start() leaves behind, line 81.
CatchState == "Error"

\* start() returned normally: to the application, or back into
\* createSession / resumeSession when ensureConnected() made the call.
AfterStartOk(t) ==
    IF loc[t].cont = "create"
    THEN Goto(t, "create_req")
    ELSE Return(t, "ok")

\* start(), lines 80-83: any failure sets the state and is rethrown; it leaves
\* createSession / resumeSession too when ensureConnected() made the call.
StartFail(t, event) ==
    /\ state' = CatchState
    /\ hs' = Append(hs, event)
    /\ Return(t, "throw")

StartEnter(t) ==
    /\ pc[t] = "start"
    /\ IF StartIsNoop
       THEN /\ AfterStartOk(t)
            /\ UNCHANGED state
       ELSE /\ state' = "Connecting"
            /\ Goto(t, "start_spawn")
    /\ UNCHANGED <<cfgVars, inVars, rpcClient, processPid, fdsOpen, sessions, modelsCache,
                   osVars, op, loc, req, obsVars, rpcVars>>

\* startCLIServer(), POSIX branch: pipe() or fork() may fail; otherwise the
\* child's pid and the two pipe ends are recorded, whatever was recorded before.
StartSpawn(t) ==
    /\ pc[t] = "start_spawn"
    /\ IF isExternalServer
       THEN /\ Goto(t, "start_connect")
            /\ UNCHANGED <<state, hs, processPid, fdsOpen, procs>>
       ELSE \/ /\ StartFail(t, "spawn_fail")
               /\ UNCHANGED <<processPid, fdsOpen, procs>>
            \/ /\ Pids \ procs # {}
               /\ LET pid == CHOOSE p \in Pids \ procs : \A q \in Pids \ procs : p <= q
                  IN /\ processPid' = pid
                     /\ procs' = procs \cup {pid}
               /\ fdsOpen' = TRUE
               /\ hs' = Append(hs, "spawn")
               /\ Goto(t, "start_connect")
               /\ UNCHANGED state
    /\ UNCHANGED <<cfgVars, inVars, rpcClient, sessions, modelsCache, lastSignal, op, loc, req,
                   lastLookup, modelsAsked, rpcVars>>

\* Mutant: the read loop is started before the handlers are installed.
LoopFirst == <<"start_loop", "start_handlers", "start_ping">>

\* connectToServer(), lines 607-609, after the JsonRpcClient was made:
\* setupHandlers(), then rpcClient_->start(); start() goes on with the ping.
ConnectOrder == <<"start_handlers", "start_loop", "start_ping">>

\* The step of start() that follows `label` in connectToServer().
AfterConnect(label) ==
    ConnectOrder[1 + CHOOSE i \in DOMAIN ConnectOrder : ConnectOrder[i] = label]

\* connectToServer(), lines 594-607: a new JsonRpcClient over the recorded
\* descriptors replaces the one there was; it has no handler and its read
\* loop does not run. Opening the descriptors can fail in the Windows branch
\* only.
StartConnect(t) ==
    /\ pc[t] = "start_connect"
    /\ \/ /\ StartFail(t, "open_fail")
          /\ UNCHANGED <<rpcClient, rpcRunning, handlers>>
       \/ /\ rpcClient' = TRUE
          /\ rpcRunning' = FALSE
          /\ handlers' = {}
          /\ hs' = Append(hs, "open")
          /\ Goto(t, ConnectOrder[1])
          /\ UNCHANGED state
    /\ UNCHANGED <<cfgVars, inVars, processPid, fdsOpen, sessions, modelsCache, osVars, op, loc,
                   req, lastLookup, modelsAsked, engineVars>>

\* setupHandlers(), lines 616-646: the order of its six setRequestHandler()
\* calls.
SetupOrder ==
    <<"session.event", "session.lifecycle", "tool.call", "permission.request",
      "userInput.request", "hooks.invoke">>

\* One setRequestHandler() call of setupHandlers(): the next method of
\* SetupOrder gets its handler; after the last, setupHandlers() returns.
StartHandlers(t) ==
    /\ pc[t] = "start_handlers"
    /\ LET missing == SelectSeq(SetupOrder, LAMBDA m : m \notin handlers)
       IN /\ handlers' = handlers \cup {Head(missing)}
          /\ IF Len(missing) = 1
             THEN Goto(t, AfterConnect("start_handlers"))
             ELSE UNCHANGED <<pc, ret>>
    /\ UNCHANGED <<clientVars, inVars, osVars, op, loc, req, obsVars, rpcRunning, engineVars>>

\* rpcClient_->start(), line 609: the read loop runs from here on.
StartLoop(t) ==
    /\ pc[t] = "start_loop"
    /\ rpcRunning' = TRUE
    /\ Goto(t, AfterConnect("start_loop"))
    /\ UNCHANGED <<clientVars, inVars, osVars, op, loc, req, obsVars, engineVars, handlers>>

\* verifyProtocolVersion() -> ping(): throws without an RPC client, else
\* issues the ping call.
StartPing(t) ==
    /\ pc[t] = "start_ping"
    /\ IF ~rpcClient
       THEN /\ StartFail(t, "ping_fail")
            /\ UNCHANGED req
       ELSE /\ Request(t, "ping")
            /\ Goto(t, "start_wait")
            /\ UNCHANGED <<state, hs>>
    /\ UNCHANGED <<cfgVars, inVars, rpcClient, processPid, fdsOpen, sessions, modelsCache, osVars,
                   op, loc, lastLookup, modelsAsked, rpcVars>>

\* Mutant: any reported protocol version is accepted.
VersionPresent(ver) == ver # {}

\* verifyProtocolVersion(), lines 399-413: the response must carry a protocol
\* version, and it must be the SDK's.
VersionOk(ver) == ver = {SDK_PROTOCOL_VERSION}

\* The ping call returned or threw; verifyProtocolVersion() checks its result.
StartVerify(t) ==
    /\ pc[t] = "start_wait"
    /\ Completed(req[t])
    /\ IF Failed(req[t])
       THEN StartFail(t, "ping_fail")
       ELSE IF ~VersionOk(req[t].ver)
       THEN StartFail(t, IF req[t].ver = {} THEN "ping_nover" ELSE "ping_mismatch")
       ELSE /\ hs' = Append(hs, "ping_ok")
            /\ Goto(t, "start_done")
            /\ UNCHANGED state
    /\ UNCHANGED <<cfgVars, inVars, rpcClient, processPid, fdsOpen, sessions, modelsCache, osVars,
                   op, loc, req, lastLookup, modelsAsked, rpcVars>>

\* start(), line 79: state_ = Connected, and start() returns.
StartDone(t) ==
    /\ pc[t] = "start_done"
    /\ state' = "Connected"
    /\ modelsAsked' = FALSE
    /\ AfterStartOk(t)
    /\ UNCHANGED <<cfgVars, inVars, rpcClient, processPid, fdsOpen, sessions, modelsCache, osVars,
                   op, loc, req, hs, lastLookup, rpcVars>>

\* ------------------------------------------------------------------ server

\* The server process is reachable: the client holds open descriptors to a
\* running subprocess it spawned (connectToServer reads no other endpoint).
ServerReachable == fdsOpen /\ processPid \in procs

\* The call a thread waits on completes: with an error (an error response, a
\* closed transport), or with the server's result for the method.
ServerReply(t) ==
    /\ req[t].status = "waiting"
    /\ rpcClient
    /\ \/ req' = [req EXCEPT ![t].status = "error"]
       \/ /\ ServerReachable
          /\ \/ /\ req[t].method = "ping"
                /\ \E v \in PingVersions :
                     req' = [req EXCEPT ![t].status = "ok", ![t].ver = v]
             \/ /\ req[t].method \in {"session.create", "session.resume"}
                /\ \E s \in SessionIds :
                     req' = [req EXCEPT ![t].status = "ok", ![t].sid = s]
             \/ /\ req[t].method = "models.list"
                /\ \E m \in ModelLists :
                     req' = [req EXCEPT ![t].status = "ok", ![t].models = m]
             \/ /\ req[t].method = "session.delete"
                /\ \E b \in BOOLEAN :
                     req' = [req EXCEPT ![t].status = "ok", ![t].success = b]
    /\ UNCHANGED <<clientVars, inVars, osVars, pc, op, ret, loc, obsVars, rpcVars>>

\* -------------------------------------------------------- session objects

Range(f) == {f[x] : x \in DOMAIN f}

\* A CopilotSession as its constructor leaves it: no handler registered yet.
\* cfg remembers the configuration the session was created for.
NewSession(sid, cfg) == [NoSession EXCEPT !.sid = sid, !.cfg = cfg]

\* Every handler the configuration supplies is registered on the session.
HandlersReady(s) ==
    /\ s.tools = s.cfg.tools
    /\ s.perm = s.cfg.perm
    /\ s.input = s.cfg.input
    /\ s.hooks = s.cfg.hooks

\* ------------------------------------- createSession() / resumeSession()

\* Mutant: the session is published before its handlers are registered.
PublishFirst == <<"create_publish", "create_tools", "create_perm", "create_input", "create_hooks">>

\* createSession(), lines 218-232 (resumeSession(), 250-264): the handlers
\* are registered, then the session is published into the registry.
CreateOrder == <<"create_tools", "create_perm", "create_input", "create_hooks", "create_publish">>

\* The step of createSession() that follows `label`.
StepAfter(label) ==
    LET i == CHOOSE k \in DOMAIN CreateOrder : CreateOrder[k] = label
    IN IF i < Len(CreateOrder) THEN CreateOrder[i + 1] ELSE "create_ret"

\* ensureConnected(), line 198: an existing RPC client counts as connected.
EnsureReady == rpcClient

\* ensureConnected(): return, start the client, or throw.
CreateEnter(t) ==
    /\ pc[t] = "create"
    /\ IF EnsureReady
       THEN /\ Goto(t, "create_req")
            /\ UNCHANGED loc
       ELSE IF options.autoStart
       THEN /\ loc' = [loc EXCEPT ![t].cont = "create"]
            /\ Goto(t, "start")
       ELSE /\ Return(t, "throw")
            /\ UNCHANGED loc
    /\ UNCHANGED <<clientVars, inVars, osVars, op, req, obsVars, rpcVars>>

\* The optional fields of SessionConfig that buildCreateSessionParams()
\* copies when they are set, and those of ResumeSessionConfig.
CreateOptionals ==
    {"model", "sessionId", "reasoningEffort", "configDir", "systemMessage", "availableTools",
     "excludedTools", "provider", "workingDirectory", "streaming", "mcpServers",
     "customAgents", "skillDirectories", "disabledSkills", "infiniteSessions"}
ResumeOptionals == (CreateOptionals \ {"sessionId"}) \cup {"disableResume"}

\* The optional field `f` of the configuration is set.
Given(cfg, f) == f \in DOMAIN cfg /\ cfg[f]

\* Mutant: the permission capability is advertised whatever the config has.
CapabilitiesAlways(cfg) ==
    (IF cfg.tools # {} THEN {<<"tools", "buildToolsJson">>} ELSE {})
    \cup {<<"requestPermission", "true">>}
    \cup (IF cfg.input THEN {<<"requestUserInput", "true">>} ELSE {})
    \cup (IF cfg.hooks THEN {<<"hooks", "true">>} ELSE {})

\* Lines 877, 882-884 (902, 908-910): the tools and the three capabilities.
Capabilities(cfg) ==
    (IF cfg.tools # {} THEN {<<"tools", "buildToolsJson">>} ELSE {})
    \cup (IF cfg.perm THEN {<<"requestPermission", "true">>} ELSE {})
    \cup (IF cfg.input THEN {<<"requestUserInput", "true">>} ELSE {})
    \cup (IF cfg.hooks THEN {<<"hooks", "true">>} ELSE {})

\* buildCreateSessionParams(): the object's fields, as <<key, value>>.
buildCreateSessionParams(cfg) ==
    {<<f, "*config">> : f \in {g \in CreateOptionals : Given(cfg, g)}} \cup Capabilities(cfg)

\* buildResumeSessionParams(): the same, starting from {"sessionId": sessionId}.
buildResumeSessionParams(sessionId, cfg) ==
    {<<"sessionId", sessionId>>}
    \cup {<<f, "*config">> : f \in {g \in ResumeOptionals : Given(cfg, g)}}
    \cup Capabilities(cfg)

\* The session.create / session.resume call is issued.
CreateRequest(t) ==
    /\ pc[t] = "create_req"
    /\ rpcClient
    /\ req' = [req EXCEPT ![t] =
          IF loc[t].kind = "createSession"
          THEN [NoReq EXCEPT !.method = "session.create", !.status = "waiting",
                             !.params = buildCreateSessionParams(loc[t].cfg)]
          ELSE [NoReq EXCEPT !.method = "session.resume", !.status = "waiting",
                             !.params = buildResumeSessionParams(loc[t].sessionId, loc[t].cfg)]]
    /\ Goto(t, "create_wait")
    /\ UNCHANGED <<clientVars, inVars, osVars, op, loc, obsVars, rpcVars>>

\* The call returned: a failure leaves createSession; a result makes the
\* session object, keyed by the id the server returned.
CreateConstruct(t) ==
    /\ pc[t] = "create_wait"
    /\ Completed(req[t])
    /\ IF Failed(req[t])
       THEN /\ Return(t, "throw")
            /\ UNCHANGED loc
       ELSE /\ loc' = [loc EXCEPT ![t].cur = NewSession(req[t].sid, loc[t].cfg)]
            /\ Goto(t, CreateOrder[1])
    /\ UNCHANGED <<clientVars, inVars, osVars, op, req, obsVars, rpcVars>>

\* session->registerTools(config.tools)
CreateTools(t) ==
    /\ pc[t] = "create_tools"
    /\ loc' = [loc EXCEPT ![t].cur.tools = loc[t].cfg.tools]
    /\ Goto(t, StepAfter("create_tools"))
    /\ UNCHANGED <<clientVars, inVars, osVars, op, req, obsVars, rpcVars>>

\* if (config.onPermissionRequest) session->registerPermissionHandler(...)
CreatePerm(t) ==
    /\ pc[t] = "create_perm"
    /\ loc' = [loc EXCEPT ![t].cur.perm = loc[t].cfg.perm]
    /\ Goto(t, StepAfter("create_perm"))
    /\ UNCHANGED <<clientVars, inVars, osVars, op, req, obsVars, rpcVars>>

\* if (config.onUserInputRequest) session->registerUserInputHandler(...)
CreateInput(t) ==
    /\ pc[t] = "create_input"
    /\ loc' = [loc EXCEPT ![t].cur.input = loc[t].cfg.input]
    /\ Goto(t, StepAfter("create_input"))
    /\ UNCHANGED <<clientVars, inVars, osVars, op, req, obsVars, rpcVars>>

\* if (config.hooks && config.hooks->hasAny()) session->registerHooks(...)
CreateHooks(t) ==
    /\ pc[t] = "create_hooks"
    /\ loc' = [loc EXCEPT ![t].cur.hooks = loc[t].cfg.hooks]
    /\ Goto(t, StepAfter("create_hooks"))
    /\ UNCHANGED <<clientVars, inVars, osVars, op, req, obsVars, rpcVars>>

\* sessions_[sid] = session, under sessionsMutex_.
CreatePublish(t) ==
    /\ pc[t] = "create_publish"
    /\ sMutex = "none"
    /\ LET sid == loc[t].cur.sid
       IN sessions' = [k \in DOMAIN sessions \cup {sid} |->
                          IF k = sid THEN loc[t].cur ELSE sessions[k]]
    /\ Goto(t, StepAfter("create_publish"))
    /\ UNCHANGED <<cfgVars, inVars, state, rpcClient, processPid, fdsOpen, modelsCache, osVars,
                   op, loc, req, obsVars, rpcVars>>

\* return session
CreateReturn(t) ==
    /\ pc[t] = "create_ret"
    /\ Return(t, "ok")
    /\ UNCHANGED <<clientVars, inVars, osVars, op, loc, req, obsVars, rpcVars>>

\* ------------------------------------------------------------- listModels()

\* Lines 296-303: throw without an RPC client; answer from the cache when it
\* is set; else issue models.list.
ListModels(t) ==
    /\ pc[t] = "models"
    /\ IF ~rpcClient
       THEN /\ Return(t, "throw")
            /\ UNCHANGED req
       ELSE IF modelsCache # <<>>
       THEN /\ Return(t, "ok")
            /\ UNCHANGED req
       ELSE /\ Request(t, "models.list")
            /\ Goto(t, "models_wait")
    /\ modelsAsked' = (modelsAsked \/ (rpcClient /\ modelsCache = <<>>))
    /\ UNCHANGED <<clientVars, inVars, osVars, op, loc, hs, lastLookup, rpcVars>>

\* Lines 304-309: the result is cached and returned.
ListModelsDone(t) ==
    /\ pc[t] = "models_wait"
    /\ Completed(req[t])
    /\ IF Failed(req[t])
       THEN /\ Return(t, "throw")
            /\ UNCHANGED modelsCache
       ELSE /\ modelsCache' = <<req[t].models>>
            /\ Return(t, "ok")
    /\ UNCHANGED <<cfgVars, inVars, state, rpcClient, processPid, fdsOpen, sessions, osVars,
                   op, loc, req, obsVars, rpcVars>>

\* ------------------------------------------------------------------- stop()

\* The engine shuts down: every caller still waiting on a call gets a
\* connection-closed failure.
RpcClientStop(r) ==
    [t \in Threads |-> IF r[t].status = "waiting" THEN [r[t] EXCEPT !.status = "closed"] ELSE r[t]]

\* A call's slot is fulfilled once more, with a result or a failure.
Fulfil(c, how) == [c EXCEPT !.n = @ + 1, !.how = how]

\* The transport is torn down (JsonRpcClient::stop(), or end-of-stream on the
\* read loop): every outstanding call is fulfilled with connection-closed,
\* the outstanding table is emptied and the read loop ends.
RpcClose ==
    /\ req' = RpcClientStop(req)
    /\ calls' = [id \in DOMAIN calls |->
                    IF id \in DOMAIN pending THEN Fulfil(calls[id], "closed") ELSE calls[id]]
    /\ pending' = <<>>
    /\ rpcRunning' = FALSE
    /\ UNCHANGED <<nextId, wire, sent, handlers>>

\* Mutant: stop() keeps sessionsMutex_ while it destroys the sessions.
LockKeptAfterCopy(t) == t

\* Line 96, the end of the scope of the lock_guard in stop(): it is released.
LockAfterCopy(t) == "none"

\* Lines 90-96: the tracked sessions are copied, in key order, under the lock.
StopSnapshot(t) ==
    /\ pc[t] = "stop"
    /\ sMutex = "none"
    /\ sMutex' = LockAfterCopy(t)
    /\ LET ids == SelectSeq(SessionSeq, LAMBDA k : k \in DOMAIN sessions)
       IN loc' = [loc EXCEPT ![t].list = ids, ![t].snapshot = DOMAIN sessions]
    /\ Goto(t, "stop_destroy")
    /\ UNCHANGED <<clientVars, inRest, osVars, op, req, obsVars, rpcVars>>

\* Mutant: the first destroy() failure ends the loop.
StopDestroyHalting(t) ==
    /\ pc[t] = "stop_destroy"
    /\ IF loc[t].list = <<>>
       THEN /\ Goto(t, "stop_clear")
            /\ UNCHANGED loc
       ELSE /\ \E failed \in BOOLEAN :
                 loc' = [loc EXCEPT
                    ![t].list = IF failed THEN <<>> ELSE Tail(@),
                    ![t].attempted = Append(@, Head(loc[t].list)),
                    ![t].failed = IF failed THEN @ \cup {Head(loc[t].list)} ELSE @,
                    ![t].errors = IF failed THEN Append(@, Head(loc[t].list)) ELSE @]
            /\ Goto(t, "stop_destroy")
    /\ UNCHANGED <<clientVars, inVars, osVars, op, req, obsVars, rpcVars>>

\* Lines 98-104, one turn of the loop: destroy() on the next session of the
\* list; a failure is caught, recorded, and the loop goes on.
StopDestroy(t) ==
    /\ pc[t] = "stop_destroy"
    /\ IF loc[t].list = <<>>
       THEN /\ Goto(t, "stop_clear")
            /\ UNCHANGED loc
       ELSE /\ \E failed \in BOOLEAN :
                 loc' = [loc EXCEPT
                    ![t].list = Tail(@),
                    ![t].attempted = Append(@, Head(loc[t].list)),
                    ![t].failed = IF failed THEN @ \cup {Head(loc[t].list)} ELSE @,
                    ![t].errors = IF failed THEN Append(@, Head(loc[t].list)) ELSE @]
            /\ Goto(t, "stop_destroy")
    /\ UNCHANGED <<clientVars, inVars, osVars, op, req, obsVars, rpcVars>>

\* Lines 106-109: sessions_.clear()
StopClear(t) ==
    /\ pc[t] = "stop_clear"
    /\ sMutex = "none"
    /\ sessions' = <<>>
    /\ Goto(t, "stop_rpc")
    /\ UNCHANGED <<cfgVars, inVars, state, rpcClient, processPid, fdsOpen, modelsCache, osVars,
                   op, loc, req, obsVars, rpcVars>>

\* Mutant: the RPC client is released without being stopped.
StopRpcNoStop(t) ==
    /\ pc[t] = "stop_rpc"
    /\ rpcClient' = FALSE
    /\ Goto(t, "stop_cache")
    /\ UNCHANGED <<cfgVars, inVars, state, processPid, fdsOpen, sessions, modelsCache, osVars,
                   op, loc, req, obsVars, rpcVars>>

\* Lines 111-115: the RPC client is stopped and released.
StopRpc(t) ==
    /\ pc[t] = "stop_rpc"
    /\ IF rpcClient
       THEN /\ RpcClose
            /\ rpcClient' = FALSE
       ELSE UNCHANGED <<req, rpcClient, rpcVars>>
    /\ Goto(t, "stop_cache")
    /\ UNCHANGED <<cfgVars, inVars, state, processPid, fdsOpen, sessions, modelsCache, osVars,
                   op, loc, obsVars>>

\* Mutant: reset() is left out and the cached list stays.
KeptCache == modelsCache

\* modelsCache_.reset(), lines 120 and 165.
ClearedCache == <<>>

\* Lines 117-121: the models cache is emptied.
StopCache(t) ==
    /\ pc[t] = "stop_cache"
    /\ modelsCache' = ClearedCache
    /\ modelsAsked' = FALSE
    /\ Goto(t, "stop_kill")
    /\ UNCHANGED <<cfgVars, inVars, state, rpcClient, processPid, fdsOpen, sessions, osVars,
                   op, loc, req, hs, lastLookup, rpcVars>>

\* kill(processPid_, sig); waitpid(processPid_, &status, flags); processPid_ = -1
KillProcess(sig, wait) ==
    /\ lastSignal' = [pid |-> processPid, sig |-> sig, wait |-> wait]
    /\ procs' = procs \ {processPid}
    /\ processPid' = NoPid

\* Mutant: the descriptors are closed whatever their value.
ClosesAlways(open) == TRUE

\* Lines 140-141 (185-186): if (fd >= 0) { close(fd); ... }
ClosesFds(open) == open

\* Both descriptors are closed when they are open, and set to -1.
CloseFds ==
    /\ hs' = IF ClosesFds(fdsOpen) THEN Append(hs, "close") ELSE hs
    /\ fdsOpen' = FALSE

\* Lines 123-143, POSIX branch: SIGTERM and a blocking wait for a process this
\* client spawned; then both descriptors are closed.
StopKill(t) ==
    /\ pc[t] = "stop_kill"
    /\ IF ~isExternalServer
       THEN /\ IF processPid > 0
               THEN KillProcess("SIGTERM", "blocking")
               ELSE UNCHANGED <<lastSignal, procs, processPid>>
            /\ CloseFds
       ELSE UNCHANGED <<lastSignal, procs, processPid, fdsOpen, hs>>
    /\ Goto(t, "stop_ret")
    /\ UNCHANGED <<cfgVars, inVars, state, rpcClient, sessions, modelsCache, op, loc, req,
                   lastLookup, modelsAsked, rpcVars>>

\* Lines 145-146: state_ = Disconnected; return errors.
StopReturn(t) ==
    /\ pc[t] = "stop_ret"
    /\ state' = "Disconnected"
    /\ Return(t, "ok")
    /\ UNCHANGED <<cfgVars, inVars, rpcClient, processPid, fdsOpen, sessions, modelsCache, osVars,
                   op, loc, req, obsVars, rpcVars>>

\* -------------------------------------------------------------- forceStop()

\* Lines 150-154: sessions_.clear(), without destroying any session.
ForceClear(t) ==
    /\ pc[t] = "fstop"
    /\ sMutex = "none"
    /\ sessions' = <<>>
    /\ Goto(t, "fstop_rpc")
    /\ UNCHANGED <<cfgVars, inVars, state, rpcClient, processPid, fdsOpen, modelsCache, osVars,
                   op, loc, req, obsVars, rpcVars>>

\* Lines 156-160: the RPC client is stopped and released.
ForceRpc(t) ==
    /\ pc[t] = "fstop_rpc"
    /\ IF rpcClient
       THEN /\ RpcClose
            /\ rpcClient' = FALSE
       ELSE UNCHANGED <<req, rpcClient, rpcVars>>
    /\ Goto(t, "fstop_cache")
    /\ UNCHANGED <<cfgVars, inVars, state, processPid, fdsOpen, sessions, modelsCache, osVars,
                   op, loc, obsVars>>

\* Lines 162-166: the models cache is emptied.
ForceCache(t) ==
    /\ pc[t] = "fstop_cache"
    /\ modelsCache' = ClearedCache
    /\ modelsAsked' = FALSE
    /\ Goto(t, "fstop_kill")
    /\ UNCHANGED <<cfgVars, inVars, state, rpcClient, processPid, fdsOpen, sessions, osVars,
                   op, loc, req, hs, lastLookup, rpcVars>>

\* Mutant: forceStop() terminates the way stop() does, waiting for the exit.
ForceKillWaiting(t) ==
    /\ pc[t] = "fstop_kill"
    /\ IF ~isExternalServer
       THEN /\ IF processPid > 0
               THEN KillProcess("SIGTERM", "blocking")
               ELSE UNCHANGED <<lastSignal, procs, processPid>>
            /\ CloseFds
       ELSE UNCHANGED <<lastSignal, procs, processPid, fdsOpen, hs>>
    /\ Goto(t, "fstop_ret")
    /\ UNCHANGED <<cfgVars, inVars, state, rpcClient, sessions, modelsCache, op, loc, req,
                   lastLookup, modelsAsked, rpcVars>>

\* Lines 168-188, POSIX branch: SIGKILL and waitpid(..., WNOHANG).
ForceKill(t) ==
    /\ pc[t] = "fstop_kill"
    /\ IF ~isExternalServer
       THEN /\ IF processPid > 0
               THEN KillProcess("SIGKILL", "nohang")
               ELSE UNCHANGED <<lastSignal, procs, processPid>>
            /\ CloseFds
       ELSE UNCHANGED <<lastSignal, procs, processPid, fdsOpen, hs>>
    /\ Goto(t, "fstop_ret")
    /\ UNCHANGED <<cfgVars, inVars, state, rpcClient, sessions, modelsCache, op, loc, req,
                   lastLookup, modelsAsked, rpcVars>>

\* Line 190: state_ = Disconnected
ForceReturn(t) ==
    /\ pc[t] = "fstop_ret"
    /\ state' = "Disconnected"
    /\ Return(t, "ok")
    /\ UNCHANGED <<cfgVars, inVars, rpcClient, processPid, fdsOpen, sessions, modelsCache, osVars,
                   op, loc, req, obsVars, rpcVars>>

\* ------------------------------------------------------- inbound requests

\* The lookup every session-scoped inbound handler starts with (tool.call,
\* permission.request, userInput.request, hooks.invoke): sessions_.find(sid)
\* under sessionsMutex_. The handler then works on the session it found;
\* lastLookup tells whether that session had all its handlers.
InboundLookup(sid) ==
    /\ rpcClient /\ rpcRunning
    /\ lastLookup' =
          IF sid \notin DOMAIN sessions THEN lastLookup
          ELSE IF HandlersReady(sessions[sid]) THEN "ready"
          ELSE "unready"
    /\ UNCHANGED <<clientVars, inVars, osVars, threadVars, hs, modelsAsked, rpcVars>>

\* ------------------------------------------- JsonRpcClient: correlation

CallIds == 1 .. MaxCalls

\* The table with `id` bound to `v`.
Put(table, id, v) == [k \in DOMAIN table \cup {id} |-> IF k = id THEN v ELSE table[k]]

\* Mutant: a fulfilled entry stays in the outstanding table.
KeepEntry(table, id) == table

\* The outstanding table without the entry of `id`.
Erase(table, id) == [k \in DOMAIN table \ {id} |-> table[k]]

\* request(): under the lock the next id is taken and the call is entered in
\* the outstanding table; the frame is written and the caller waits.
RpcSend(t) ==
    /\ pc[t] = "idle"
    /\ rpcClient /\ rpcRunning
    /\ nextId <= MaxCalls
    /\ req' = [req EXCEPT ![t] = [NoReq EXCEPT !.method = "call", !.status = "waiting",
                                                !.id = nextId]]
    /\ pending' = Put(pending, nextId, t)
    /\ calls' = Put(calls, nextId, [caller |-> t, n |-> 0, how |-> "none"])
    /\ nextId' = nextId + 1
    /\ op' = [op EXCEPT ![t] = "request"]
    /\ loc' = [loc EXCEPT ![t] = NoLoc]
    /\ ret' = [ret EXCEPT ![t] = "none"]
    /\ pc' = [pc EXCEPT ![t] = "rpc_wait"]
    /\ UNCHANGED <<clientVars, inVars, osVars, obsVars, rpcRunning, handlers, wire, sent>>

\* The server writes a response frame: for a call it got, once more for a
\* call it already answered, or for an id no call was sent under.
ServerRespond(id) ==
    /\ rpcRunning
    /\ processPid \in procs
    /\ sent < MaxFrames
    /\ id \notin wire
    /\ wire' = wire \cup {id}
    /\ sent' = sent + 1
    /\ UNCHANGED <<clientVars, inVars, osVars, threadVars, obsVars, rpcRunning, handlers, nextId, pending, calls>>

\* The read loop reads a response frame and looks its id up: an outstanding
\* call is fulfilled and its entry removed; any other frame is discarded.
RpcRead(id) ==
    /\ rpcRunning
    /\ id \in wire
    /\ wire' = wire \ {id}
    /\ IF id \in DOMAIN pending
       THEN /\ req' = [req EXCEPT ![pending[id]].status = "ok", ![pending[id]].reply = id]
            /\ calls' = [calls EXCEPT ![id] = Fulfil(@, "result")]
            /\ pending' = Erase(pending, id)
       ELSE UNCHANGED <<req, calls, pending>>
    /\ UNCHANGED <<clientVars, inVars, osVars, pc, op, ret, loc, obsVars, rpcRunning, handlers, nextId, sent>>

\* The per-call timeout elapses first: the entry is removed and the caller's
\* wait fails; nothing is sent.
RpcTimeout(id) ==
    /\ rpcRunning
    /\ id \in DOMAIN pending
    /\ req' = [req EXCEPT ![pending[id]].status = "timeout"]
    /\ calls' = [calls EXCEPT ![id] = Fulfil(@, "timeout")]
    /\ pending' = Erase(pending, id)
    /\ UNCHANGED <<clientVars, inVars, osVars, pc, op, ret, loc, obsVars, rpcRunning, handlers, nextId, wire, sent>>

\* The read loop reads end-of-stream, after every frame written before it.
RpcEof ==
    /\ rpcRunning
    /\ wire = {}
    /\ RpcClose
    /\ UNCHANGED <<clientVars, inVars, osVars, pc, op, ret, loc, obsVars>>

\* request() returns the result to its caller, or throws.
RpcReturn(t) ==
    /\ pc[t] = "rpc_wait"
    /\ Completed(req[t])
    /\ Return(t, IF Failed(req[t]) THEN "throw" ELSE "ok")
    /\ UNCHANGED <<clientVars, inVars, osVars, op, loc, req, obsVars, rpcVars>>

\* ------------------------------------------------ inbound: dispatch

\* The session ids and tool names inbound frames carry: empty, tracked,
\* and unknown to this client.
InSids == {"", "s1", "s2", "s9"}
InTools == {"", "get_weather", "get_rocket"}

\* The worker's handler hands `r` back to the RPC client and is done.
Respond(w, r) ==
    inb' = [inb EXCEPT ![w].result = r, ![w].pc = "idle"]

\* The same after an application callback that ended with `out`.
Finish(w, r, out) ==
    inb' = [inb EXCEPT ![w].result = r, ![w].pc = "idle", ![w].raised = out]

Result(body) == [kind |-> "result", code |-> 0, msg |-> "", body |-> body]
ProtocolError(code, msg) == [kind |-> "error", code |-> code, msg |-> msg, body |-> <<>>]
\* {nullptr, std::nullopt}: the two notification handlers have nothing to send.
Nothing == [kind |-> "nothing", code |-> 0, msg |-> "", body |-> <<>>]

\* The frame leaves every variable but the worker's own record alone.
OnlyInb == UNCHANGED <<clientVars, osVars, threadVars, obsVars, rpcVars, sMutex, lcMutex,
                       lifecycleHandlers, nextLifecycleId, unsubscribed, eventLog>>

\* The read loop reads an inbound frame and hands it to a free worker, which
\* enters the handler setupHandlers() installed for the method.
Dispatch(w, f) ==
    /\ rpcClient /\ rpcRunning
    /\ inb[w].pc = "idle"
    /\ (f.method = "session.event" /\ f.sid \in DOMAIN eventLog) => Len(eventLog[f.sid]) < MaxLog
    /\ inb' = [inb EXCEPT ![w] = [NoInb EXCEPT !.frame = f, !.pc = "validate",
                                               !.gone = unsubscribed]]
    /\ OnlyInb

\* Mutant: a session id that is not tracked finds the first session.
FindSessionOrFirst(reg, sid) == IF sid \in DOMAIN reg THEN sid ELSE SessionSeq[1]

\* sessions_.find(sid): the id of the session found, "" when there is none.
FindSession(reg, sid) == IF sid \in DOMAIN reg THEN sid ELSE ""

\* Mutant: the lock on sessionsMutex_ is kept while the handler goes on.
LockKeptAfterLookup(w) == w

\* The end of the scope of the lock_guard on sessionsMutex_: it is released.
LockAfterLookup(w) == "none"

\* The block every session-scoped handler has: lock sessionsMutex_, find the
\* session, unlock.
Lookup(w) ==
    /\ inb[w].pc = "lookup"
    /\ sMutex = "none"
    /\ sMutex' = LockAfterLookup(w)
    /\ LET sid == FindSession(sessions, inb[w].frame.sid)
       IN inb' = [inb EXCEPT ![w].session = sid,
                             ![w].found = IF sid = "" THEN NoSession ELSE sessions[sid],
                             ![w].pc = "route"]
    /\ UNCHANGED <<clientVars, osVars, threadVars, obsVars, rpcVars, lcMutex,
                   lifecycleHandlers, nextLifecycleId, unsubscribed, eventLog>>

\* The handler returns or throws: a lock it still holds is released with it.
Unlock(w) == sMutex' = IF sMutex = w THEN "none" ELSE sMutex

\* An application callback is entered: it is recorded, and the worker stays in
\* it until the callback returns or throws.
Invoke(w, call) ==
    inb' = [inb EXCEPT ![w].invoked = Append(@, call), ![w].pc = "callback"]

\* ------------------------------------------------ inbound: tool.call

\* Mutant: the tool name is not validated.
ToolInvalidNoName(f) == f.sid = "" \/ ~f.callId

\* handleToolCall(), line 696: a missing or empty identifier.
ToolInvalid(f) == f.sid = "" \/ ~f.callId \/ f.tool = ""

\* handleToolCall(), lines 692-698.
ToolValidate(w) ==
    /\ inb[w].pc = "validate" /\ inb[w].frame.method = "tool.call"
    /\ IF ToolInvalid(inb[w].frame)
       THEN Respond(w, ProtocolError(-32602, "Invalid tool call payload"))
       ELSE inb' = [inb EXCEPT ![w].pc = "lookup"]
    /\ OnlyInb

\* session->getToolHandler(toolName): the handler registered under the name
\* on this session, if there is one.
HasToolHandler(session, toolName) == toolName \in session.tools

\* Mutant: the unsupported-tool result does not say which tool.
buildUnsupportedAnonymous(toolName) ==
    [resultType |-> "failure", error |-> <<"Unknown tool error">>]

\* buildUnsupportedToolResult(): error = "tool '" + toolName + "' not supported"
buildUnsupportedToolResult(toolName) ==
    [resultType |-> "failure", error |-> <<"tool '", toolName, "' not supported">>]

\* buildFailedToolResult(error)
buildFailedToolResult(error) ==
    [resultType |-> "failure", error |-> <<error>>]

\* handleToolCall(), lines 707-719: no session, no such tool on the session,
\* or the tool's handler is called with the arguments ({} when absent).
ToolRoute(w) ==
    /\ inb[w].pc = "route" /\ inb[w].frame.method = "tool.call"
    /\ LET f == inb[w].frame
           sid == inb[w].session
       IN IF sid = ""
          THEN /\ Respond(w, ProtocolError(-32602, "Unknown session"))
               /\ Unlock(w)
          ELSE IF ~HasToolHandler(inb[w].found, f.tool)
          THEN /\ Respond(w, Result(buildUnsupportedToolResult(f.tool)))
               /\ Unlock(w)
          ELSE /\ Invoke(w, [handler |-> "tool", on |-> sid, name |-> f.tool,
                             args |-> IF f.hasArgs THEN "arguments" ELSE "{}"])
               /\ UNCHANGED sMutex
    /\ UNCHANGED <<clientVars, osVars, threadVars, obsVars, rpcVars, lcMutex,
                   lifecycleHandlers, nextLifecycleId, unsubscribed, eventLog>>

\* How an application callback ends: it returns, throws a std::exception, or
\* throws something else.
Outcomes == {"ok", "std_throw", "other_throw"}

\* Mutant: executeToolCall() without its catch (...).
executeCatchingStdOnly(out) ==
    CASE out = "ok" -> [caught |-> TRUE, value |-> [resultType |-> "success", error |-> <<>>]]
      [] out = "std_throw" -> [caught |-> TRUE, value |-> buildFailedToolResult("e.what()")]
      [] OTHER -> [caught |-> FALSE, value |-> <<>>]

\* executeToolCall(): the handler's result, or a failure result for whatever
\* it threw.
executeToolCall(out) ==
    CASE out = "ok" -> [caught |-> TRUE, value |-> [resultType |-> "success", error |-> <<>>]]
      [] out = "std_throw" -> [caught |-> TRUE, value |-> buildFailedToolResult("e.what()")]
      [] OTHER -> [caught |-> TRUE, value |-> buildFailedToolResult("Unknown tool error")]

\* The handler throws: the worker is back in the RPC client with the exception.
Escape(w, out) ==
    inb' = [inb EXCEPT ![w].raised = out, ![w].pc = "escaped"]

\* handleToolCall(), lines 721-724: the tool's handler ends and its result is
\* the response.
ToolReturn(w) ==
    /\ inb[w].pc = "callback" /\ inb[w].frame.method = "tool.call"
    /\ \E out \in Outcomes :
         LET r == executeToolCall(out)
         IN IF r.caught
            THEN Finish(w, Result(r.value), out)
            ELSE Escape(w, out)
    /\ Unlock(w)
    /\ UNCHANGED <<clientVars, osVars, threadVars, obsVars, rpcVars, lcMutex,
                   lifecycleHandlers, nextLifecycleId, unsubscribed, eventLog>>

\* ------------------------------------------ inbound: permission.request

OnlyInbAndLock == UNCHANGED <<clientVars, osVars, threadVars, obsVars, rpcVars, lcMutex,
                              lifecycleHandlers, nextLifecycleId, unsubscribed, eventLog>>

\* handlePermissionRequest(), lines 729-732.
PermValidate(w) ==
    /\ inb[w].pc = "validate" /\ inb[w].frame.method = "permission.request"
    /\ IF inb[w].frame.sid = "" \/ ~inb[w].frame.payload
       THEN Respond(w, ProtocolError(-32602, "Invalid permission request payload"))
       ELSE inb' = [inb EXCEPT ![w].pc = "lookup"]
    /\ OnlyInb

\* PermissionRequestResult{"denied-no-approval-rule-and-could-not-request-from-user"}
DeniedDefault == "denied-no-approval-rule-and-could-not-request-from-user"

\* What a permission callback that returns can answer.
PermissionAnswers == {"approved", "denied-interactively-by-user"}

\* handlePermissionRequest(), lines 741-756, up to the callback: no session;
\* the request does not decode, or the session has no permission callback
\* (both end in the denied default); or the callback is entered.
PermRoute(w) ==
    /\ inb[w].pc = "route" /\ inb[w].frame.method = "permission.request"
    /\ LET sid == inb[w].session
       IN IF sid = ""
          THEN /\ Respond(w, ProtocolError(-32602, "Session not found"))
               /\ Unlock(w)
          ELSE \/ /\ Respond(w, Result(DeniedDefault))
                  /\ Unlock(w)
               \/ /\ ~inb[w].found.perm
                  /\ Respond(w, Result(DeniedDefault))
                  /\ Unlock(w)
               \/ /\ inb[w].found.perm
                  /\ Invoke(w, [handler |-> "permission", on |-> sid, name |-> "", args |-> ""])
                  /\ UNCHANGED sMutex
    /\ OnlyInbAndLock

\* Mutant: a failed permission callback is answered like a failed input callback.
permissionFailureAsError(out, answer) ==
    IF out = "ok" THEN Result(answer) ELSE ProtocolError(-32603, "e.what()")

\* Lines 745-756: the callback's answer is the result; catch (...) turns any
\* failure into the denied default.
permissionResponse(out, answer) ==
    IF out = "ok" THEN Result(answer) ELSE Result(DeniedDefault)

\* The permission callback returns or throws.
PermReturn(w) ==
    /\ inb[w].pc = "callback" /\ inb[w].frame.method = "permission.request"
    /\ \E out \in Outcomes, answer \in PermissionAnswers :
         /\ Finish(w, permissionResponse(out, answer), out)
    /\ Unlock(w)
    /\ OnlyInbAndLock

\* ------------------------------------------- inbound: userInput.request

\* handleUserInputRequest(), lines 761-766.
InputValidate(w) ==
    /\ inb[w].pc = "validate" /\ inb[w].frame.method = "userInput.request"
    /\ IF inb[w].frame.sid = "" \/ ~inb[w].frame.payload
       THEN Respond(w, ProtocolError(-32602, "Invalid user input request payload"))
       ELSE inb' = [inb EXCEPT ![w].pc = "lookup"]
    /\ OnlyInb

\* Lines 775-788, up to the callback: no session; choices / allowFreeform do
\* not decode, or the session has no input callback (a std::exception, caught
\* on line 787); or the callback is entered.
InputRoute(w) ==
    /\ inb[w].pc = "route" /\ inb[w].frame.method = "userInput.request"
    /\ LET sid == inb[w].session
       IN IF sid = ""
          THEN /\ Respond(w, ProtocolError(-32602, "Session not found"))
               /\ Unlock(w)
          ELSE \/ /\ Respond(w, ProtocolError(-32603, "e.what()"))
                  /\ Unlock(w)
               \/ /\ ~inb[w].found.input
                  /\ Respond(w, ProtocolError(-32603, "e.what()"))
                  /\ Unlock(w)
               \/ /\ inb[w].found.input
                  /\ Invoke(w, [handler |-> "userInput", on |-> sid, name |-> "", args |-> ""])
                  /\ UNCHANGED sMutex
    /\ OnlyInbAndLock

\* Mutant: a failed input callback degrades to an empty answer.
inputFailureAsDefault(out) ==
    [caught |-> TRUE, value |-> Result("answer")]

\* Lines 785-789: the callback's response is the result; a std::exception
\* becomes the internal error -32603; anything else is not caught here.
inputResponse(out) ==
    CASE out = "ok" -> [caught |-> TRUE, value |-> Result("answer")]
      [] out = "std_throw" -> [caught |-> TRUE, value |-> ProtocolError(-32603, "e.what()")]
      [] OTHER -> [caught |-> FALSE, value |-> NoResult]

\* The input callback returns or throws.
InputReturn(w) ==
    /\ inb[w].pc = "callback" /\ inb[w].frame.method = "userInput.request"
    /\ \E out \in Outcomes :
         LET r == inputResponse(out)
         IN IF r.caught
            THEN /\ Finish(w, r.value, out)
            ELSE Escape(w, out)
    /\ Unlock(w)
    /\ OnlyInbAndLock

\* ------------------------------------------------ inbound: hooks.invoke

\* handleHooksInvoke(), lines 794-799.
HooksValidate(w) ==
    /\ inb[w].pc = "validate" /\ inb[w].frame.method = "hooks.invoke"
    /\ IF inb[w].frame.sid = "" \/ ~inb[w].frame.payload
       THEN Respond(w, ProtocolError(-32602, "Invalid hooks invoke payload"))
       ELSE inb' = [inb EXCEPT ![w].pc = "lookup"]
    /\ OnlyInb

\* What a hooks callback hands back: a null json, or a value.
HookOutputs == {"null", "value"}

\* Mutant: the output is put into the response whatever it is.
hooksResponseWithNull(output) == {<<"output", output>>}

\* Lines 815-818: the fields of the response object; "output" is set only
\* for an output that is not null.
hooksResponse(output) == IF output # "null" THEN {<<"output", output>>} ELSE {}

\* Lines 808-813: no session; a session without hooks gives no output; else
\* the hooks callback is entered with the input ({} when absent).
HooksRoute(w) ==
    /\ inb[w].pc = "route" /\ inb[w].frame.method = "hooks.invoke"
    /\ LET sid == inb[w].session
       IN IF sid = ""
          THEN /\ Respond(w, ProtocolError(-32602, "Session not found"))
               /\ Unlock(w)
          ELSE IF ~inb[w].found.hooks
          THEN /\ Respond(w, Result(hooksResponse("null")))
               /\ Unlock(w)
          ELSE /\ Invoke(w, [handler |-> "hooks", on |-> sid, name |-> "",
                             args |-> IF inb[w].frame.hasArgs THEN "input" ELSE "{}"])
               /\ UNCHANGED sMutex
    /\ OnlyInbAndLock

\* Lines 813-819: a null output leaves the response without "output"; there
\* is no try block, so a failure of the callback leaves the handler.
HooksReturn(w) ==
    /\ inb[w].pc = "callback" /\ inb[w].frame.method = "hooks.invoke"
    /\ \E out \in Outcomes :
         IF out = "ok"
         THEN \E output \in HookOutputs :
                inb' = [inb EXCEPT ![w].result = Result(hooksResponse(output)),
                                   ![w].pc = "idle", ![w].raised = out,
                                   ![w].output = output]
         ELSE Escape(w, out)
    /\ Unlock(w)
    /\ OnlyInbAndLock

\* ----------------------------------------------- inbound: session.event

\* handleSessionEvent(), line 653.
EventValidate(w) ==
    /\ inb[w].pc = "validate" /\ inb[w].frame.method = "session.event"
    /\ IF ~inb[w].frame.hasSid \/ ~inb[w].frame.payload
       THEN Respond(w, Nothing)
       ELSE inb' = [inb EXCEPT ![w].pc = "lookup"]
    /\ OnlyInb

\* Lines 665-667: without a session nothing happens; else
\* session->dispatchEvent(event) appends the event to the session's log and
\* enters the session's subscribers.
EventRoute(w) ==
    /\ inb[w].pc = "route" /\ inb[w].frame.method = "session.event"
    /\ LET sid == inb[w].session
       IN IF sid = ""
          THEN /\ Respond(w, Nothing)
               /\ Unlock(w)
               /\ UNCHANGED eventLog
          ELSE /\ eventLog' = [eventLog EXCEPT ![sid] = Append(@, "event")]
               /\ Invoke(w, [handler |-> "event", on |-> sid, name |-> "", args |-> ""])
               /\ UNCHANGED sMutex
    /\ UNCHANGED <<clientVars, osVars, threadVars, obsVars, rpcVars, lcMutex,
                   lifecycleHandlers, nextLifecycleId, unsubscribed>>

\* The session's subscribers return, or one of them throws: nothing in
\* handleSessionEvent() catches it.
EventReturn(w) ==
    /\ inb[w].pc = "callback" /\ inb[w].frame.method = "session.event"
    /\ \E out \in Outcomes :
         IF out = "ok"
         THEN /\ Finish(w, Nothing, out)
         ELSE Escape(w, out)
    /\ Unlock(w)
    /\ OnlyInbAndLock

\* -------------------------------------------- inbound: session.lifecycle

\* The event types lifecycle events carry, and the filters subscribers give
\* ("" subscribes to every type).
LifecycleTypes == {"session.created", "session.deleted"}
LifecycleFilters == {"", "session.created"}

OnlyLifecycle == UNCHANGED <<clientVars, osVars, threadVars, obsVars, rpcVars, sMutex, eventLog>>

\* onLifecycle(handler) / onLifecycle(eventType, handler): under
\* lifecycleMutex_ the subscriber gets the next id and is appended.
OnLifecycle(filter) ==
    /\ lcMutex = "none"
    /\ nextLifecycleId <= MaxSubs
    /\ lifecycleHandlers' = Append(lifecycleHandlers, [id |-> nextLifecycleId, eventType |-> filter])
    /\ nextLifecycleId' = nextLifecycleId + 1
    /\ UNCHANGED <<inb, lcMutex, unsubscribed>>
    /\ OnlyLifecycle

\* Lines 372-375: the entries with this id are erased.
EraseSubscriber(list, id) == SelectSeq(list, LAMBDA e : e.id # id)

\* The subscribers whose unsubscribe function has run.
Unsubscribed == {g.id : g \in unsubscribed}

\* The entry of the subscriber `id`, with the caller of its unsubscribe
\* function: the application ("app") or the subscriber's own callback.
Removed(list, id, by) ==
    {[id |-> id, eventType |-> list[i].eventType, by |-> by] :
        i \in {j \in DOMAIN list : list[j].id = id}}

\* The application calls the function onLifecycle() returned, outside any
\* callback.
Unsubscribe(id) ==
    /\ lcMutex = "none"
    /\ id < nextLifecycleId /\ id \notin Unsubscribed
    /\ lifecycleHandlers' = EraseSubscriber(lifecycleHandlers, id)
    /\ unsubscribed' = unsubscribed \cup Removed(lifecycleHandlers, id, "app")
    /\ UNCHANGED <<inb, lcMutex, nextLifecycleId>>
    /\ OnlyLifecycle

\* handleSessionLifecycle(), line 671.
LcValidate(w) ==
    /\ inb[w].pc = "validate" /\ inb[w].frame.method = "session.lifecycle"
    /\ IF inb[w].frame.type = "" \/ ~inb[w].frame.hasSid
       THEN Respond(w, Nothing)
       ELSE inb' = [inb EXCEPT ![w].pc = "lc_snapshot"]
    /\ OnlyInb

\* Mutant: the subscribers are called with lifecycleMutex_ still held.
LockKeptAfterSnapshot(w) == w

\* Line 679, the end of the scope of the lock_guard on lifecycleMutex_.
LockAfterSnapshot(w) == "none"

\* Lines 675-679: the subscriber list is copied under lifecycleMutex_.
LcSnapshot(w) ==
    /\ inb[w].pc = "lc_snapshot"
    /\ lcMutex = "none"
    /\ lcMutex' = LockAfterSnapshot(w)
    /\ inb' = [inb EXCEPT ![w].snapshot = lifecycleHandlers, ![w].todo = lifecycleHandlers,
                          ![w].pc = "lc_loop"]
    /\ UNCHANGED <<lifecycleHandlers, nextLifecycleId, unsubscribed>>
    /\ OnlyLifecycle

\* Line 682: the entry's filter is empty or is the event's type.
Matches(entry, type) == entry.eventType = "" \/ entry.eventType = type

\* Mutant: the first subscriber that throws ends the loop.
AfterSubscriberStop(out, rest) == IF out = "ok" THEN rest ELSE <<>>

\* Lines 683-685: catch (...) {} ; the loop goes on with the next entry.
AfterSubscriber(out, rest) == rest

\* Lines 681-687, one turn of the loop: the next entry of the snapshot is
\* skipped or its subscriber is entered; after the last the handler returns.
LcNext(w) ==
    /\ inb[w].pc = "lc_loop"
    /\ IF inb[w].todo = <<>>
       THEN /\ Respond(w, Nothing)
            /\ lcMutex' = IF lcMutex = w THEN "none" ELSE lcMutex
       ELSE /\ IF Matches(Head(inb[w].todo), inb[w].frame.type)
               THEN Invoke(w, [handler |-> "lifecycle", on |-> Head(inb[w].todo).id,
                               name |-> "", args |-> ""])
               ELSE inb' = [inb EXCEPT ![w].todo = Tail(@)]
            /\ UNCHANGED lcMutex
    /\ UNCHANGED <<lifecycleHandlers, nextLifecycleId, unsubscribed>>
    /\ OnlyLifecycle

\* The subscriber being called.
Current(w) == Head(inb[w].todo).id

\* Inside its callback the subscriber calls its own unsubscribe function.
LcCallUnsubscribe(w) ==
    /\ inb[w].pc = "callback" /\ inb[w].frame.method = "session.lifecycle"
    /\ Current(w) \notin Unsubscribed
    /\ inb' = [inb EXCEPT ![w].pc = "lc_unsub"]
    /\ OnlyInb

\* The unsubscribe function, lines 370-376, on the worker's thread: it takes
\* lifecycleMutex_, erases the entry and returns into the callback.
LcUnsubscribe(w) ==
    /\ inb[w].pc = "lc_unsub"
    /\ lcMutex = "none"
    /\ lifecycleHandlers' = EraseSubscriber(lifecycleHandlers, Current(w))
    /\ unsubscribed' = unsubscribed \cup Removed(lifecycleHandlers, Current(w), "callback")
    /\ inb' = [inb EXCEPT ![w].pc = "callback"]
    /\ UNCHANGED <<lcMutex, nextLifecycleId>>
    /\ OnlyLifecycle

\* The subscriber returns or throws; either way the loop takes over.
LcReturn(w) ==
    /\ inb[w].pc = "callback" /\ inb[w].frame.method = "session.lifecycle"
    /\ \E out \in Outcomes :
         inb' = [inb EXCEPT ![w].todo = AfterSubscriber(out, Tail(@)),
                            ![w].raised = IF out = "ok" THEN @ ELSE out,
                            ![w].pc = "lc_loop"]
    /\ OnlyInb

\* ------------------------------------------- inbound: dispatch boundary

\* Mutant: an exception that leaves a handler ends the read loop.
ContainNothing(w) ==
    /\ inb[w].pc = "escaped"
    /\ inb' = [inb EXCEPT ![w].pc = "dead"]
    /\ rpcRunning' = FALSE
    /\ UNCHANGED <<clientVars, osVars, threadVars, obsVars, engineVars, handlers, sMutex, lcMutex,
                   lifecycleHandlers, nextLifecycleId, unsubscribed, eventLog>>

\* The RPC client catches whatever leaves a handler and answers the frame
\* with an internal error; the read loop and the worker go on.
Contain(w) ==
    /\ inb[w].pc = "escaped"
    /\ Respond(w, ProtocolError(-32603, "handler failed"))
    /\ OnlyInb

\* ------------------------------------------------------------ specification

ThreadStep(t) ==
    \/ Call(t)
    \/ StartEnter(t) \/ StartSpawn(t) \/ StartConnect(t) \/ StartHandlers(t) \/ StartLoop(t)
    \/ StartPing(t) \/ StartVerify(t) \/ StartDone(t)
    \/ CreateEnter(t) \/ CreateRequest(t) \/ CreateConstruct(t) \/ CreateTools(t)
    \/ CreatePerm(t) \/ CreateInput(t) \/ CreateHooks(t) \/ CreatePublish(t) \/ CreateReturn(t)
    \/ ListModels(t) \/ ListModelsDone(t)
    \/ StopSnapshot(t) \/ StopDestroy(t) \/ StopClear(t) \/ StopRpc(t) \/ StopCache(t)
    \/ StopKill(t) \/ StopReturn(t)
    \/ ForceClear(t) \/ ForceRpc(t) \/ ForceCache(t) \/ ForceKill(t) \/ ForceReturn(t)

Next ==
    \/ \E t \in MainThreads : ThreadStep(t)
    \/ \E t \in MainThreads : ServerReply(t)
    \/ \E sid \in SessionIds : InboundLookup(sid)

Spec == Init /\ [][Next]_vars

\* The client as a successful start() of a default-configured client leaves
\* it: connected to the subprocess it spawned, the read loop running, no call
\* made yet.
InitConnected ==
    /\ state = "Connected"
    /\ options = [cliUrl |-> FALSE, useStdio |-> TRUE, cliPathEmpty |-> FALSE, autoStart |-> TRUE]
    /\ isExternalServer = FALSE
    /\ rpcClient = TRUE
    /\ processPid = 1
    /\ fdsOpen = TRUE
    /\ sessions = <<>>
    /\ modelsCache = <<>>
    /\ procs = {1}
    /\ lastSignal = NoSignal
    /\ pc = [t \in Threads |-> "idle"]
    /\ op = [t \in Threads |-> "none"]
    /\ ret = [t \in Threads |-> "none"]
    /\ loc = [t \in Threads |-> NoLoc]
    /\ req = [t \in Threads |-> NoReq]
    /\ hs = <<>>
    /\ lastLookup = "none"
    /\ modelsAsked = FALSE
    /\ rpcRunning = TRUE /\ handlers = InboundMethods
    /\ nextId = 1
    /\ pending = <<>>
    /\ calls = <<>>
    /\ wire = {}
    /\ sent = 0
    /\ InitIn

\* A thread shuts the client down, unless the RPC client is gone already.
CallShutdown(t) == rpcClient /\ \E o \in {"stop", "forceStop"} : CallOp(t, o)

ShutdownStep(t) ==
    \/ CallShutdown(t)
    \/ StopSnapshot(t) \/ StopDestroy(t) \/ StopClear(t) \/ StopRpc(t) \/ StopCache(t)
    \/ StopKill(t) \/ StopReturn(t)
    \/ ForceClear(t) \/ ForceRpc(t) \/ ForceCache(t) \/ ForceKill(t) \/ ForceReturn(t)

\* Several threads make calls through the RPC client of a connected client
\* while the server answers, calls time out, the stream may end and any
\* thread may shut the client down.
NextRpc ==
    \/ \E t \in Threads : RpcSend(t)
    \/ \E t \in Threads : RpcReturn(t)
    \/ \E id \in CallIds : ServerRespond(id)
    \/ \E id \in CallIds : RpcRead(id)
    \/ \E id \in CallIds : RpcTimeout(id)
    \/ RpcEof
    \/ \E t \in Threads : ShutdownStep(t)

SpecRpc == InitConnected /\ [][NextRpc]_vars

\* ---- inbound frames

ToolFrames ==
    {[NoFrame EXCEPT !.method = "tool.call", !.hasSid = (sid # ""), !.sid = sid,
                     !.callId = c, !.tool = t, !.hasArgs = a] :
        sid \in InSids, c \in BOOLEAN, t \in InTools, a \in BOOLEAN}

\* permission.request, userInput.request, hooks.invoke.
PayloadFrames ==
    {[NoFrame EXCEPT !.method = m, !.hasSid = (sid # ""), !.sid = sid, !.payload = p] :
        m \in {"permission.request", "userInput.request", "hooks.invoke"},
        sid \in InSids, p \in BOOLEAN}
    \cup
    {[NoFrame EXCEPT !.method = "hooks.invoke", !.hasSid = TRUE, !.sid = sid,
                     !.payload = TRUE, !.hasArgs = TRUE] : sid \in InSids \ {""}}

EventFrames ==
    {[NoFrame EXCEPT !.method = "session.event", !.hasSid = TRUE, !.sid = sid, !.payload = p] :
        sid \in InSids, p \in BOOLEAN}
    \cup {[NoFrame EXCEPT !.method = "session.event", !.payload = p] : p \in BOOLEAN}

LifecycleFrames ==
    {[NoFrame EXCEPT !.method = "session.lifecycle", !.hasSid = h, !.sid = IF h THEN "s9" ELSE "",
                     !.type = t] :
        h \in BOOLEAN, t \in LifecycleTypes \cup {""}}

\* A session as createSession() publishes it for the configuration `cfg`.
Registered(sid, cfg) ==
    [sid |-> sid, tools |-> cfg.tools, perm |-> cfg.perm, input |-> cfg.input,
     hooks |-> cfg.hooks, cfg |-> cfg]

FullConfig == [tools |-> ToolNames, perm |-> TRUE, input |-> TRUE, hooks |-> TRUE]

\* The registry after createSession(c1) and createSession(c2) gave s1 and s2.
Registry(c1, c2) ==
    [sid \in SessionIds |-> IF sid = SessionSeq[1] THEN Registered(sid, c1) ELSE Registered(sid, c2)]

\* Two subscribers, as onLifecycle(handler) and then
\* onLifecycle("session.created", handler) leave them.
TwoSubscribers ==
    <<[id |-> 1, eventType |-> ""], [id |-> 2, eventType |-> "session.created"]>>

\* A connected client that tracks the sessions of `reg` and has the lifecycle
\* subscribers `subs`.
Serving(reg, subs) ==
    /\ state = "Connected"
    /\ options = [cliUrl |-> FALSE, useStdio |-> TRUE, cliPathEmpty |-> FALSE, autoStart |-> TRUE]
    /\ isExternalServer = FALSE
    /\ rpcClient = TRUE
    /\ processPid = 1
    /\ fdsOpen = TRUE
    /\ sessions = reg
    /\ modelsCache = <<>>
    /\ procs = {1}
    /\ lastSignal = NoSignal
    /\ pc = [t \in Threads |-> "idle"]
    /\ op = [t \in Threads |-> "none"]
    /\ ret = [t \in Threads |-> "none"]
    /\ loc = [t \in Threads |-> NoLoc]
    /\ req = [t \in Threads |-> NoReq]
    /\ hs = <<>>
    /\ lastLookup = "none"
    /\ modelsAsked = FALSE
    /\ rpcRunning = TRUE /\ handlers = InboundMethods
    /\ InitRpc!2 /\ InitRpc!3 /\ InitRpc!4 /\ InitRpc!5 /\ InitRpc!6
    /\ inb = [w \in Workers |-> NoInb]
    /\ sMutex = "none"
    /\ lcMutex = "none"
    /\ lifecycleHandlers = subs
    /\ nextLifecycleId = Len(subs) + 1
    /\ unsubscribed = {}
    /\ eventLog = [sid \in DOMAIN reg |-> <<>>]

\* The steps of the five handlers that route a frame to a session, and of
\* the dispatch boundary around them.
SessionStep(w) ==
    \/ Lookup(w)
    \/ ToolValidate(w) \/ ToolRoute(w) \/ ToolReturn(w)
    \/ PermValidate(w) \/ PermRoute(w) \/ PermReturn(w)
    \/ InputValidate(w) \/ InputRoute(w) \/ InputReturn(w)
    \/ HooksValidate(w) \/ HooksRoute(w) \/ HooksReturn(w)
    \/ EventValidate(w) \/ EventRoute(w) \/ EventReturn(w)
    \/ Contain(w)

\* The steps of handleSessionLifecycle().
LifecycleStep(w) ==
    \/ LcValidate(w) \/ LcSnapshot(w) \/ LcNext(w)
    \/ LcCallUnsubscribe(w) \/ LcUnsubscribe(w) \/ LcReturn(w)

InFrames == ToolFrames \cup PayloadFrames \cup EventFrames \cup LifecycleFrames

\* Inbound frames of every kind, handled one at a time by a client that
\* tracks s1 (everything configured) and s2 (nothing configured) and has two
\* lifecycle subscribers.
NextIn ==
    \/ \E f \in InFrames : Dispatch("w1", f)
    \/ SessionStep("w1")
    \/ LifecycleStep("w1")

SpecIn == Serving(Registry(FullConfig, NoConfig), TwoSubscribers) /\ [][NextIn]_vars

\* session.lifecycle frames, handled one at a time, while the application
\* subscribes and unsubscribes.
NextLc ==
    \/ \E f \in LifecycleFrames : Dispatch("w1", f)
    \/ LifecycleStep("w1")
    \/ \E filter \in LifecycleFilters : OnLifecycle(filter)
    \/ \E id \in 1 .. MaxSubs : Unsubscribe(id)

SpecLc == Serving(Registry(FullConfig, NoConfig), <<>>) /\ [][NextLc]_vars

\* ------------------------------------------------------------------ claims

StartPcs ==
    {"start_spawn", "start_connect", "start_handlers", "start_loop", "start_ping", "start_wait",
     "start_done"}
CreatePcs == {"create_req", "create_wait", "create_ret"} \cup Range(CreateOrder)

\* C1: start() called while the state is Connected is a no-op: it spawns no
\* process, opens no transport, sends no ping, and leaves the state, the
\* session registry and the process handle unchanged; it returns normally.
C1_StartWhenConnectedIsNoop ==
    [][\A t \in Threads :
          (pc[t] = "start" /\ state = "Connected" /\ pc'[t] # "start")
          => /\ UNCHANGED <<clientVars, inVars, osVars, req, hs>>
             /\ pc'[t] \notin StartPcs
             /\ loc[t].cont = "none" => (pc'[t] = "idle" /\ ret'[t] = "ok")]_vars

\* A start() that found the client connected, with a session tracked, has returned.
C1_Witness ==
    /\ pc["t1"] = "idle" /\ op["t1"] = "start" /\ ret["t1"] = "ok"
    /\ hs = <<>>
    /\ state = "Connected" /\ DOMAIN sessions # {} /\ processPid > 0

\* What start() must have done, in order, when it sets Connected.
ExpectedHandshake ==
    IF isExternalServer THEN <<"open", "ping_ok">> ELSE <<"spawn", "open", "ping_ok">>

\* C2: the state becomes Connected only from Connecting, and only after the
\* subprocess was spawned (unless the server is external), the transport was
\* opened and a ping response carrying the SDK's protocol version arrived, in
\* this order; while start() is still at work the state is not Connected.
C2_ConnectedOnlyAfterHandshake ==
    /\ [](\A t \in Threads : pc[t] \in StartPcs => state = "Connecting")
    /\ [][(state' = "Connected" /\ state # "Connected")
          => /\ state = "Connecting"
             /\ hs = ExpectedHandshake
             /\ \E t \in Threads :
                  /\ pc[t] = "start_done"
                  /\ req[t].method = "ping" /\ req[t].status = "ok"
                  /\ req[t].ver = {SDK_PROTOCOL_VERSION}]_vars
    /\ [][(state' = "Connecting" /\ state # "Connecting")
          => (state \in {"Disconnected", "Error"} /\ \E t \in Threads : pc[t] = "start")]_vars

\* start() has just connected a spawned server.
C2_Witness ==
    /\ state = "Connected" /\ pc["t1"] = "idle" /\ op["t1"] = "start"
    /\ hs = <<"spawn", "open", "ping_ok">>
    /\ req["t1"].ver = {SDK_PROTOCOL_VERSION}

FailEvents == {"spawn_fail", "open_fail", "ping_fail", "ping_nover", "ping_mismatch"}

\* C3: a ping response without a protocol version or with another version
\* than the SDK's, a failed ping, a failed spawn or a failed connect makes
\* start() throw to its caller with the state Error; no start() that has
\* ended leaves the state Connecting.
C3_StartFailureLeavesError ==
    /\ [](\A t \in Threads :
            (pc[t] = "idle" /\ op[t] = "start" /\ ret[t] = "throw") => state = "Error")
    /\ []((\A t \in Threads : pc[t] \notin StartPcs \cup {"start"}) => state # "Connecting")
    /\ [][\A t \in Threads :
            (/\ pc[t] = "start_wait"
             /\ pc'[t] # "start_wait"
             /\ (Failed(req[t]) \/ req[t].ver # {SDK_PROTOCOL_VERSION}))
            => (state' = "Error" /\ pc'[t] = "idle" /\ ret'[t] = "throw")]_vars
    /\ [][(hs' # hs /\ hs' # <<>> /\ hs'[Len(hs')] \in FailEvents)
          => (state' = "Error"
              /\ \E t \in Threads : pc[t] \in StartPcs /\ pc'[t] = "idle" /\ ret'[t] = "throw")]_vars

\* start() threw on a ping response that reports another protocol version.
C3_Witness ==
    /\ pc["t1"] = "idle" /\ op["t1"] = "start" /\ ret["t1"] = "throw"
    /\ state = "Error"
    /\ hs = <<"spawn", "open", "ping_mismatch">>
    /\ req["t1"].ver = {SDK_PROTOCOL_VERSION + 1}

C5_CliUrlNeverSpawnsNorSignals ==
    options.cliUrl => (procs = {} /\ processPid = NoPid /\ lastSignal = NoSignal)

\* C6: when forceStop() has returned it did not throw; it called destroy() on
\* no session, waited on no call, signalled only with SIGKILL followed by a
\* non-blocking wait; the state is Disconnected, no session is tracked, there
\* is no RPC client, the models cache is empty and no process is recorded.
C6_ForceStopNeverBlocks ==
    /\ \A t \in MainThreads :
          (pc[t] \in {"fstop", "fstop_rpc", "fstop_cache", "fstop_kill", "fstop_ret"}
           \/ (pc[t] = "idle" /\ op[t] = "forceStop"))
          => /\ loc[t].attempted = <<>>
             /\ req[t].status = "none"
             /\ lastSignal # NoSignal => (lastSignal.sig = "SIGKILL" /\ lastSignal.wait = "nohang")
             /\ lastSignal # NoSignal => lastSignal.pid \notin procs
    /\ \A t \in MainThreads :
          (pc[t] = "idle" /\ op[t] = "forceStop")
          => /\ ret[t] = "ok"
             /\ state = "Disconnected"
             /\ DOMAIN sessions = {}
             /\ ~rpcClient
             /\ modelsCache = <<>>
             /\ processPid = NoPid
             /\ ~isExternalServer => ~fdsOpen

\* forceStop() returned after killing the spawned server.
C6_Witness ==
    /\ pc["t1"] = "idle" /\ op["t1"] = "forceStop" /\ ret["t1"] = "ok"
    /\ lastSignal.sig = "SIGKILL"
    /\ state = "Disconnected"

\* C7: createSession() / resumeSession() issue session.create /
\* session.resume, and go on to add a session, only while the state is
\* Connected.
C7_CreateOnlyWhenConnected ==
    \A t \in MainThreads : pc[t] \in CreatePcs \ {"create_req"} => state = "Connected"

\* C8: every session in the registry has all the handlers its configuration
\* supplied, so no inbound lookup finds a session that lacks one.
C8_PublishedSessionsAreReady ==
    /\ \A sid \in DOMAIN sessions : HandlersReady(sessions[sid])
    /\ lastLookup # "unready"

\* While createSession() is registering the handlers of a new session, an
\* inbound request looked up a session, and the one it found was complete.
C8_Witness ==
    /\ \E t \in MainThreads :
         /\ pc[t] \in {"create_perm", "create_input", "create_hooks"}
         /\ ~HandlersReady(loc[t].cur)
         /\ loc[t].cur.sid \notin DOMAIN sessions
    /\ lastLookup = "ready"
    /\ \E sid \in DOMAIN sessions : sessions[sid].cfg.hooks

\* C9: with calls issued concurrently, a wait that ends with a result ends on
\* the response frame that carries the call's own id, read while the call was
\* outstanding and by the thread that made the call; no call is fulfilled
\* more than once; a response whose id is not outstanding (unknown, or already
\* fulfilled) changes no caller and no call's fulfilment.
C9_ResponsesReachTheirCaller ==
    /\ [](\A t \in Threads : req[t].status = "ok" => req[t].reply = req[t].id)
    /\ [](\A id \in DOMAIN calls : calls[id].n <= 1)
    /\ [](\A id \in DOMAIN pending :
            /\ calls[id].n = 0
            /\ calls[id].caller = pending[id]
            /\ req[pending[id]].id = id /\ req[pending[id]].status = "waiting")
    /\ [][\A t \in Threads :
            (req[t].status = "waiting" /\ req'[t].status = "ok")
            => /\ req[t].id \in wire /\ req[t].id \notin wire'
               /\ req[t].id \in DOMAIN pending /\ pending[req[t].id] = t
               /\ req[t].id \notin DOMAIN pending'
               /\ \A u \in Threads \ {t} : req'[u] = req[u]]_vars
    /\ [][\A id \in wire \ wire' :
            id \notin DOMAIN pending
            => /\ req' = req /\ pending' = pending
               /\ \A k \in DOMAIN calls : calls'[k].n = calls[k].n]_vars

\* Two threads had calls outstanding together; the responses came back in
\* the other order and each thread got its own; a third response frame was
\* read and discarded.
C9_Witness ==
    /\ DOMAIN calls = {1, 2}
    /\ calls[1].caller # calls[2].caller
    /\ calls[1].how = "result" /\ calls[2].how = "result"
    /\ calls[1].n = 1 /\ calls[2].n = 1
    /\ sent = 3 /\ wire = {}
    /\ \A t \in Threads : req[t].status = "ok" /\ req[t].reply = req[t].id

\* C10: when the transport closes, by end-of-stream or because stop() /
\* forceStop() stops the RPC client, every call outstanding at that moment is
\* fulfilled with connection-closed, once, and its caller stops waiting; from
\* then on the outstanding table is empty, no thread waits, and every call
\* ever made has been fulfilled exactly once.
C10_CloseFulfilsAllOutstanding ==
    /\ []((~rpcRunning \/ ~rpcClient)
          => /\ DOMAIN pending = {}
             /\ \A t \in Threads : req[t].status # "waiting"
             /\ \A id \in DOMAIN calls : calls[id].n = 1)
    /\ [][((rpcRunning /\ ~rpcRunning') \/ (rpcClient /\ ~rpcClient'))
          => \A id \in DOMAIN pending :
                /\ calls'[id].n = 1 /\ calls'[id].how = "closed"
                /\ req'[pending[id]].status = "closed"
                /\ req'[pending[id]].id = id]_vars
    /\ [][\A id \in DOMAIN calls : calls[id].how = "closed" => calls'[id] = calls[id]]_vars

\* The stream ended with two calls outstanding: both callers got
\* connection-closed and have returned.
C10_Witness ==
    /\ ~rpcRunning /\ rpcClient
    /\ DOMAIN calls = {1, 2}
    /\ calls[1].how = "closed" /\ calls[2].how = "closed"
    /\ calls[1].caller # calls[2].caller
    /\ \A t \in Threads : pc[t] = "idle" /\ ret[t] = "throw" /\ req[t].status = "closed"

\* A permission prompt and an input prompt of s1, and a tool call of s2.
BusyFrames ==
    {[NoFrame EXCEPT !.method = m, !.hasSid = TRUE, !.sid = "s1", !.payload = TRUE] :
        m \in {"permission.request", "userInput.request"}}
    \cup {[NoFrame EXCEPT !.method = "tool.call", !.hasSid = TRUE, !.sid = "s2", !.callId = TRUE,
                          !.tool = "get_weather", !.hasArgs = TRUE]}

\* The steps of the handlers of these frames.
BusyStep(w) ==
    \/ Lookup(w)
    \/ ToolValidate(w) \/ ToolRoute(w) \/ ToolReturn(w)
    \/ PermValidate(w) \/ PermRoute(w) \/ PermReturn(w)
    \/ InputValidate(w) \/ InputRoute(w) \/ InputReturn(w)
    \/ Contain(w)

\* Two workers handle inbound frames of two sessions while a thread of the
\* application makes outbound calls and the read loop reads their responses.
NextBusy ==
    \/ \E w \in Workers, f \in BusyFrames : Dispatch(w, f)
    \/ \E w \in Workers : BusyStep(w)
    \/ RpcSend("t1")
    \/ \E id \in DOMAIN pending : ServerRespond(id)
    \/ \E id \in CallIds : RpcRead(id)
    \/ RpcReturn("t1")

\* The steps that do not wait for the user: the session lookup, the tool.call
\* handler with its tool, the dispatch boundary, the read loop.
BusyFairness ==
    /\ \A w \in Workers :
          /\ WF_vars(Lookup(w))
          /\ WF_vars(ToolValidate(w)) /\ WF_vars(ToolRoute(w)) /\ WF_vars(ToolReturn(w))
    /\ WF_vars(\E id \in CallIds : RpcRead(id))

SpecBusy ==
    /\ Serving(Registry(FullConfig, [NoConfig EXCEPT !.tools = ToolNames]), <<>>)
    /\ [][NextBusy]_vars
    /\ BusyFairness

\* One well-formed frame of each method, for the sessions s1 and s2.
LockFrames ==
    {[NoFrame EXCEPT !.method = m, !.hasSid = TRUE, !.sid = "s1", !.payload = TRUE,
                     !.callId = TRUE, !.tool = "get_weather"] :
        m \in {"tool.call", "permission.request", "userInput.request", "hooks.invoke",
               "session.event"}}
    \cup {[NoFrame EXCEPT !.method = "session.lifecycle", !.hasSid = TRUE, !.sid = "s2",
                          !.type = "session.created"]}

\* A worker handles inbound frames, whose callbacks may unsubscribe, while an
\* application thread stops the client.
NextLocks ==
    \/ \E f \in LockFrames : Dispatch("w1", f)
    \/ SessionStep("w1")
    \/ LifecycleStep("w1")
    \/ ShutdownStep("t1")

SpecLocks == Serving(Registry(FullConfig, NoConfig), TwoSubscribers) /\ [][NextLocks]_vars

\* SessionConfig / ResumeSessionConfig with some of their optional fields:
\* each may be set or not.
RichConfigs ==
    [tools : {{}, ToolNames}, perm : BOOLEAN, input : BOOLEAN, hooks : BOOLEAN,
     model : BOOLEAN, sessionId : BOOLEAN, streaming : BOOLEAN, disableResume : BOOLEAN]

\* createSession(config) or resumeSession(sessionId, config) has been called
\* on a connected client and is about to build its payload.
InitParams ==
    /\ Serving(<<>>, <<>>)!1 /\ Serving(<<>>, <<>>)!2 /\ Serving(<<>>, <<>>)!3
    /\ Serving(<<>>, <<>>)!4 /\ Serving(<<>>, <<>>)!5 /\ Serving(<<>>, <<>>)!6
    /\ sessions = <<>>
    /\ modelsCache = <<>> /\ procs = {1} /\ lastSignal = NoSignal
    /\ pc = [t \in Threads |-> IF t = "t1" THEN "create_req" ELSE "idle"]
    /\ \E kind \in {"createSession", "resumeSession"}, cfg \in RichConfigs, sid \in SessionIds :
          /\ op = [t \in Threads |-> IF t = "t1" THEN kind ELSE "none"]
          /\ loc = [t \in Threads |->
                      IF t = "t1"
                      THEN [NoLoc EXCEPT !.kind = kind, !.cfg = cfg, !.sessionId = sid]
                      ELSE NoLoc]
    /\ ret = [t \in Threads |-> "none"]
    /\ req = [t \in Threads |-> NoReq]
    /\ hs = <<>> /\ lastLookup = "none" /\ modelsAsked = FALSE
    /\ rpcRunning = TRUE /\ handlers = InboundMethods
    /\ InitRpc!2 /\ InitRpc!3 /\ InitRpc!4 /\ InitRpc!5 /\ InitRpc!6
    /\ InitIn

\* The call is sent and answered and the session is set up and published.
NextParams ==
    \/ CreateRequest("t1") \/ ServerReply("t1") \/ CreateConstruct("t1")
    \/ CreateTools("t1") \/ CreatePerm("t1") \/ CreateInput("t1") \/ CreateHooks("t1")
    \/ CreatePublish("t1") \/ CreateReturn("t1")

SpecParams == InitParams /\ [][NextParams]_vars

\* The worker has handed the response to a frame of method `m` back.
Handled(w, m) == inb[w].frame.method = m /\ inb[w].pc = "idle"

\* The frame went through validation and its session was found.
Routed(w) == inb[w].session # ""

\* C12: a tool.call in which sessionId, toolCallId or toolName is missing or
\* empty is answered with the invalid-parameters error, whether or not its
\* session is tracked and before any lookup; a tool.call with all three and a
\* session id that is not in the registry is answered with the
\* unknown-session error; in neither case is a tool handler invoked.
C12_ToolCallRejections ==
    \A w \in Workers :
        LET f == inb[w].frame
            r == inb[w].result
            invalid == f.sid = "" \/ ~f.callId \/ f.tool = ""
        IN f.method = "tool.call" =>
            /\ invalid => /\ inb[w].pc \in {"validate", "idle"}
                          /\ inb[w].invoked = <<>>
                          /\ inb[w].session = ""
            /\ f.sid \notin DOMAIN sessions => inb[w].invoked = <<>> /\ inb[w].session = ""
            /\ (Handled(w, "tool.call") /\ invalid)
               => r.kind = "error" /\ r.code = -32602 /\ r.msg = "Invalid tool call payload"
            /\ (Handled(w, "tool.call") /\ ~invalid /\ f.sid \notin DOMAIN sessions)
               => r.kind = "error" /\ r.code = -32602 /\ r.msg = "Unknown session"

\* A tool.call for an untracked session with an empty tool name got the
\* invalid-parameters error, not the unknown-session error.
C12_Witness ==
    /\ Handled("w1", "tool.call")
    /\ inb["w1"].frame.sid = "s9" /\ inb["w1"].frame.callId /\ inb["w1"].frame.tool = ""
    /\ inb["w1"].result.msg = "Invalid tool call payload"

\* C13: a tool.call for a tracked session and a tool name that session has
\* no handler for, also when another session has one, is answered with a
\* result, not an error: a failure whose error text holds the tool name and
\* "not supported"; no handler is invoked.
C13_UnregisteredToolIsFailureResult ==
    \A w \in Workers :
        LET f == inb[w].frame
            r == inb[w].result
        IN (f.method = "tool.call" /\ Routed(w) /\ f.tool \notin sessions[f.sid].tools)
           => /\ inb[w].invoked = <<>>
              /\ inb[w].pc \in {"route", "idle"}
              /\ Handled(w, "tool.call")
                 => /\ r.kind = "result"
                    /\ r.body.resultType = "failure"
                    /\ \E i, j \in DOMAIN r.body.error :
                          r.body.error[i] = f.tool /\ r.body.error[j] = "' not supported"

\* get_weather, which s1 has a handler for, was called on s2, which has none.
C13_Witness ==
    /\ Handled("w1", "tool.call")
    /\ inb["w1"].frame.sid = "s2" /\ inb["w1"].frame.tool = "get_weather"
    /\ "get_weather" \in sessions["s1"].tools
    /\ inb["w1"].result.kind = "result"

\* C14: a tool.call for a tool its session has a handler for invokes that
\* handler, once, with the call's arguments or with {} when it has none; the
\* response is a result whatever the handler does, a "failure" result when
\* the handler throws, and nothing leaves handleToolCall().
C14_ToolFailureIsWrapped ==
    \A w \in Workers :
        LET f == inb[w].frame
            r == inb[w].result
            call == [handler |-> "tool", on |-> f.sid, name |-> f.tool,
                     args |-> IF f.hasArgs THEN "arguments" ELSE "{}"]
        IN (f.method = "tool.call" /\ Routed(w) /\ f.tool \in sessions[f.sid].tools)
           => /\ inb[w].pc \in {"route", "callback", "idle"}
              /\ inb[w].pc \in {"callback", "idle"} => inb[w].invoked = <<call>>
              /\ Handled(w, "tool.call")
                 => /\ r.kind = "result"
                    /\ inb[w].raised \in Outcomes
                    /\ inb[w].raised # "ok" => r.body.resultType = "failure"

\* The handler of get_weather, called without arguments, threw something that
\* is not a std::exception.
C14_Witness ==
    /\ Handled("w1", "tool.call")
    /\ ~inb["w1"].frame.hasArgs
    /\ inb["w1"].raised = "other_throw"
    /\ inb["w1"].invoked # <<>> /\ inb["w1"].invoked[1].args = "{}"
    /\ inb["w1"].result.body.resultType = "failure"

\* C15: a permission.request routed to a tracked session is answered with a
\* result and never leaves the handler with an exception; when no callback
\* ran (the session has none, or the request did not decode) or the callback
\* threw, the result is the denied default; "approved" is the result only of
\* a callback that ran and returned.
C15_PermissionFailureIsDenied ==
    \A w \in Workers :
        LET r == inb[w].result
        IN (inb[w].frame.method = "permission.request" /\ Routed(w))
           => /\ inb[w].pc \in {"route", "callback", "idle"}
              /\ ~sessions[inb[w].session].perm => inb[w].invoked = <<>>
              /\ Handled(w, "permission.request")
                 => /\ r.kind = "result"
                    /\ (inb[w].invoked = <<>> \/ inb[w].raised # "ok") => r.body = DeniedDefault
                    /\ r.body = "approved" => inb[w].invoked # <<>> /\ inb[w].raised = "ok"

\* The permission callback of s1 threw and the answer was the denied default.
C15_Witness ==
    /\ Handled("w1", "permission.request")
    /\ inb["w1"].session = "s1"
    /\ inb["w1"].raised = "std_throw"
    /\ inb["w1"].result = Result(DeniedDefault)

\* C16: when the input callback of a tracked session throws, the response to
\* the userInput.request is the internal error -32603, not a result.
C16_InputFailureIsInternalError ==
    \A w \in Workers :
        LET r == inb[w].result
        IN (Handled(w, "userInput.request") /\ Routed(w))
           => /\ (inb[w].invoked # <<>> /\ inb[w].raised # "ok") => r.kind = "error" /\ r.code = -32603
              /\ r.kind = "result" => inb[w].invoked # <<>> /\ inb[w].raised = "ok"

\* The input callback of s1 threw a std::exception and the answer was -32603.
C16_Witness ==
    /\ Handled("w1", "userInput.request")
    /\ inb["w1"].session = "s1"
    /\ inb["w1"].invoked # <<>>
    /\ inb["w1"].raised = "std_throw"
    /\ inb["w1"].result.code = -32603

\* C17: whatever an application callback throws under any of the six
\* handlers, the read loop keeps running and the worker ends with an error
\* response (-32603) or with the handler's safe default (a "failure" tool
\* result, the denied permission result, nothing for a lifecycle
\* notification), and then takes the next inbound frame.
C17_HandlerFailuresContained ==
    /\ rpcRunning
    /\ \A w \in Workers :
        LET r == inb[w].result
            m == inb[w].frame.method
        IN /\ inb[w].pc # "dead"
           /\ inb[w].pc = "escaped" => ENABLED Contain(w)
           /\ (inb[w].pc = "idle" /\ inb[w].raised \in {"std_throw", "other_throw"})
              => /\ \/ r.kind = "error" /\ r.code = -32603
                    \/ m = "tool.call" /\ r.kind = "result" /\ r.body.resultType = "failure"
                    \/ m = "permission.request" /\ r.kind = "result" /\ r.body = DeniedDefault
                    \/ m = "session.lifecycle" /\ r.kind = "nothing"
                 /\ ENABLED (\E f \in ToolFrames : Dispatch(w, f))

\* The hooks callback of s1 threw something that is not a std::exception:
\* the answer was an error and the read loop is running.
C17_Witness ==
    /\ Handled("w1", "hooks.invoke")
    /\ inb["w1"].invoked # <<>>
    /\ inb["w1"].raised = "other_throw"
    /\ inb["w1"].result.kind = "error"
    /\ rpcRunning

\* C18: a session.event for a session id that is not in the registry invokes
\* nothing, raises nothing and sends nothing; the registry does not change;
\* an event log changes only by the event of a frame for a tracked id being
\* appended to the log of that session, whose subscribers alone are invoked.
C18_UnknownSessionEventIsDropped ==
    /\ [](\A w \in Workers :
            LET f == inb[w].frame
            IN f.method = "session.event" =>
                /\ f.sid \notin DOMAIN sessions
                   => /\ inb[w].invoked = <<>>
                      /\ inb[w].raised = "none"
                      /\ inb[w].pc \in {"validate", "lookup", "route", "idle"}
                      /\ inb[w].result.kind \in {"none", "nothing"}
                /\ Len(inb[w].invoked) <= 1
                /\ \A i \in DOMAIN inb[w].invoked :
                      inb[w].invoked[i].handler = "event" /\ inb[w].invoked[i].on = f.sid)
    /\ [][sessions' = sessions]_vars
    /\ [][eventLog' # eventLog
          => \E w \in Workers :
                /\ inb[w].frame.method = "session.event" /\ inb[w].pc = "route"
                /\ inb[w].frame.sid \in DOMAIN sessions
                /\ eventLog' = [eventLog EXCEPT ![inb[w].frame.sid] = Append(@, "event")]]_vars

\* After an event for s1 was delivered, an event for the untracked s9 was
\* handled: nothing was sent and the logs are as they were.
C18_Witness ==
    /\ Handled("w1", "session.event")
    /\ inb["w1"].frame.sid = "s9" /\ inb["w1"].frame.payload
    /\ inb["w1"].result.kind = "nothing"
    /\ eventLog["s1"] = <<"event">> /\ eventLog["s2"] = <<>>

\* C19: handleSessionLifecycle() works on the subscribers registered when it
\* takes its copy; it calls, in order and once each, those whose filter is
\* empty or is the event's type, and no other; when it returns all of them
\* have been called, whatever any of them threw.
C19_LifecycleDelivery ==
    /\ [](\A w \in Workers :
            LET f == inb[w].frame
                due == SelectSeq(inb[w].snapshot,
                                 LAMBDA e : e.eventType = "" \/ e.eventType = f.type)
                called == inb[w].invoked
            IN f.method = "session.lifecycle" =>
                /\ Len(called) <= Len(due)
                /\ \A i \in DOMAIN called :
                      called[i].handler = "lifecycle" /\ called[i].on = due[i].id
                /\ \A i, j \in DOMAIN inb[w].snapshot :
                      inb[w].snapshot[i].id = inb[w].snapshot[j].id => i = j
                /\ (Handled(w, "session.lifecycle") /\ f.type # "" /\ f.hasSid)
                   => Len(called) = Len(due))
    /\ [][\A w \in Workers :
            (inb[w].pc = "lc_snapshot" /\ inb'[w].pc # "lc_snapshot")
            => inb'[w].snapshot = lifecycleHandlers]_vars

\* Two subscribers matched the event, one of them threw, both were called.
C19_Witness ==
    /\ Handled("w1", "session.lifecycle")
    /\ Len(inb["w1"].snapshot) = 2
    /\ Len(inb["w1"].invoked) = 2
    /\ inb["w1"].raised \in {"std_throw", "other_throw"}

\* C20: the unsubscribe function called inside the subscriber's own callback
\* finds lifecycleMutex_ free, so it returns; and a subscriber whose
\* unsubscribe function had run when a lifecycle event was received is not
\* called for that event.
C20_UnsubscribeInsideCallback ==
    \A w \in Workers :
        /\ inb[w].pc = "lc_unsub" => lcMutex = "none" /\ ENABLED LcUnsubscribe(w)
        /\ inb[w].frame.method = "session.lifecycle"
           => \A i \in DOMAIN inb[w].invoked :
                 inb[w].invoked[i].on \notin {g.id : g \in inb[w].gone}

\* A subscriber unsubscribed inside its callback; a later event of a type it
\* had subscribed to was delivered to another subscriber and not to it.
C20_Witness ==
    /\ Handled("w1", "session.lifecycle")
    /\ inb["w1"].invoked # <<>>
    /\ \E g \in inb["w1"].gone :
          /\ g.by = "callback"
          /\ g.eventType = "" \/ g.eventType = inb["w1"].frame.type

\* The worker is inside a permission or input callback that has not returned.
Prompting(w) ==
    /\ inb[w].pc = "callback"
    /\ inb[w].frame.method \in {"permission.request", "userInput.request"}

\* C11: a worker inside a permission or input callback holds no lock of the
\* client, so the session lookup of every other handler and the read loop
\* stay enabled; a tool.call that has been dispatched is answered and a
\* response frame that has arrived is read, whether or not a prompt ever
\* returns.
C11_PendingPromptBlocksNothing ==
    /\ [](\A v \in Workers :
            Prompting(v)
            => /\ sMutex # v /\ lcMutex # v
               /\ rpcRunning
               /\ \A w \in Workers \ {v} : inb[w].pc = "lookup" => ENABLED Lookup(w)
               /\ \A id \in wire : ENABLED RpcRead(id))
    /\ \A w \in Workers :
          (inb[w].frame.method = "tool.call" /\ inb[w].pc # "idle") ~> Handled(w, "tool.call")
    /\ \A id \in CallIds : (id \in wire) ~> (id \notin wire /\ id \notin DOMAIN pending)

\* While the permission callback of s1 had not returned, the tool call of s2
\* got past the session lookup into its tool, and the response to the
\* outbound call was read and returned to its caller.
C11_Witness ==
    /\ inb["w1"].pc = "callback" /\ inb["w1"].frame.method = "permission.request"
    /\ inb["w2"].pc = "callback" /\ inb["w2"].frame.method = "tool.call"
    /\ inb["w2"].session = "s2"
    /\ 1 \in DOMAIN calls /\ calls[1].how = "result"
    /\ pc["t1"] = "idle" /\ ret["t1"] = "ok"

\* C21: a thread that is inside an application callback (of a tool, a
\* permission or input prompt, a hook, an event or lifecycle subscriber, also
\* while that callback unsubscribes) or inside a session's destroy() holds
\* neither sessionsMutex_ nor lifecycleMutex_; both are free whenever a
\* thread is between two steps, so a call back into the client finds them
\* free.
C21_NoLockHeldInCallbacks ==
    /\ \A w \in Workers :
          inb[w].pc \in {"callback", "lc_unsub", "escaped"}
          => /\ sMutex # w /\ lcMutex # w
             /\ inb[w].pc = "lc_unsub" => ENABLED LcUnsubscribe(w)
    /\ \A t \in Threads :
          pc[t] \in {"stop_destroy", "stop_clear"}
          => /\ sMutex # t /\ lcMutex # t
             /\ pc[t] = "stop_clear" => ENABLED StopClear(t)
    /\ sMutex = "none" /\ lcMutex = "none"

\* stop() has destroyed the first of two sessions while a lifecycle
\* subscriber, inside its callback, has unsubscribed itself.
C21_Witness ==
    /\ pc["t1"] = "stop_destroy" /\ Len(loc["t1"].attempted) = 1
    /\ inb["w1"].pc = "callback" /\ inb["w1"].frame.method = "session.lifecycle"
    /\ \E g \in unsubscribed : g.by = "callback" /\ g.id = Current("w1")

\* C22: the response to a hooks.invoke routed to a tracked session has the
\* field "output", holding the callback's output, exactly when the session's
\* hooks callback ran and returned an output that is not null; otherwise the
\* response object has no field at all, and never an "output" that is null.
C22_HooksOutputOnlyWhenPresent ==
    \A w \in Workers :
        LET r == inb[w].result
        IN (Handled(w, "hooks.invoke") /\ Routed(w) /\ r.kind = "result")
           => /\ (inb[w].invoked # <<>> /\ inb[w].output = "value")
                 <=> (\E f \in r.body : f[1] = "output")
              /\ \A f \in r.body : f = <<"output", "value">>
              /\ inb[w].output # "value" => r.body = {}

\* The hooks callback of s1 ran and returned null: the response is {}.
C22_Witness ==
    /\ Handled("w1", "hooks.invoke")
    /\ inb["w1"].invoked # <<>>
    /\ inb["w1"].output = "null"
    /\ inb["w1"].result.kind = "result" /\ inb["w1"].result.body = {}

\* listModels() on thread t sends models.list in this step.
IssuesModelsList(t) == pc[t] = "models" /\ pc'[t] = "models_wait"

\* stop() / forceStop() empty the cache, and it is empty when they have
\* returned; with an empty cache and an RPC client listModels() sends a call.
StopClearsModelsCache ==
    /\ [][\A t \in Threads :
            (pc[t] \in {"stop_cache", "fstop_cache"} /\ pc'[t] # pc[t]) => modelsCache' = <<>>]_vars
    /\ [](\A t \in MainThreads :
            (pc[t] = "idle" /\ op[t] \in {"stop", "forceStop"}) => modelsCache = <<>>)
    /\ [][\A t \in Threads :
            (pc[t] = "models" /\ pc'[t] # "models" /\ rpcClient /\ modelsCache = <<>>)
            => IssuesModelsList(t) /\ req'[t].method = "models.list"]_vars

\* C23, as stated: between a successful start() and the next stop() /
\* forceStop() listModels() sends at most one models.list call, and stop() /
\* forceStop() clear the cache so that the next listModels() sends a call.
C23_AtMostOneModelsCall ==
    /\ [][\A t \in Threads :
            (IssuesModelsList(t) /\ state = "Connected") => ~modelsAsked]_vars
    /\ StopClearsModelsCache

\* C23, amended: listModels() sends models.list exactly when nothing is
\* cached; only a call answered with a result fills the cache, and only
\* stop() / forceStop() empty it: so at most one models.list call is answered
\* with a list between a start() and the next stop() / forceStop(), a call
\* that failed is made again by the next listModels(), and stop() /
\* forceStop() clear the cache so that the next listModels() sends a call.
C23_CachedListIsFetchedOnce ==
    /\ [][\A t \in Threads :
            (pc[t] = "models" /\ pc'[t] # "models" /\ rpcClient)
            => (IssuesModelsList(t) <=> modelsCache = <<>>)]_vars
    /\ [][modelsCache' # modelsCache
          => \/ /\ modelsCache = <<>>
                /\ \E t \in Threads :
                      pc[t] = "models_wait" /\ req[t].status = "ok"
                      /\ modelsCache' = <<req[t].models>>
             \/ /\ modelsCache' = <<>>
                /\ \E t \in Threads : pc[t] \in {"stop_cache", "fstop_cache"}]_vars
    /\ StopClearsModelsCache

\* A list is cached and a further listModels() returned it without a call.
C23_Witness ==
    /\ pc["t1"] = "idle" /\ op["t1"] = "listModels" /\ ret["t1"] = "ok"
    /\ req["t1"].status = "none"
    /\ modelsCache # <<>> /\ modelsAsked
    /\ state = "Connected"

\* A thread calls createSession() or resumeSession() on a client that has
\* its RPC client and runs it.
OpenStep(t) ==
    \/ rpcClient /\ \E o \in {"createSession", "resumeSession"} : CallOp(t, o)
    \/ CreateEnter(t) \/ CreateRequest(t) \/ CreateConstruct(t) \/ CreateTools(t)
    \/ CreatePerm(t) \/ CreateInput(t) \/ CreateHooks(t) \/ CreatePublish(t) \/ CreateReturn(t)
    \/ ServerReply(t)

\* One thread opens sessions on a connected client while another thread
\* shuts the client down.
NextRace == OpenStep("t1") \/ ShutdownStep("t2")

SpecRace == Serving(<<>>, <<>>) /\ [][NextRace]_vars

\* Well-formed session.event and tool.call frames, for the ids the server
\* gives to sessions.
EarlyFrames ==
    {[NoFrame EXCEPT !.method = m, !.hasSid = TRUE, !.sid = sid, !.payload = TRUE,
                     !.callId = TRUE, !.tool = "get_weather"] :
        m \in {"tool.call", "session.event"}, sid \in SessionIds}

\* The steps of handleSessionEvent() and handleToolCall(), and of the
\* dispatch boundary around them.
EarlyStep(w) ==
    \/ Lookup(w)
    \/ ToolValidate(w) \/ ToolRoute(w) \/ ToolReturn(w)
    \/ EventValidate(w) \/ EventRoute(w) \/ EventReturn(w)
    \/ Contain(w)

\* A connected client without sessions nor subscribers; the event logs of the
\* sessions to come are empty.
InitEarly ==
    /\ Serving(<<>>, <<>>)!1 /\ Serving(<<>>, <<>>)!2 /\ Serving(<<>>, <<>>)!3
    /\ Serving(<<>>, <<>>)!4 /\ Serving(<<>>, <<>>)!5 /\ Serving(<<>>, <<>>)!6
    /\ Serving(<<>>, <<>>)!7 /\ Serving(<<>>, <<>>)!8 /\ Serving(<<>>, <<>>)!9
    /\ Serving(<<>>, <<>>)!10 /\ Serving(<<>>, <<>>)!11 /\ Serving(<<>>, <<>>)!12
    /\ Serving(<<>>, <<>>)!13 /\ Serving(<<>>, <<>>)!14 /\ Serving(<<>>, <<>>)!15
    /\ Serving(<<>>, <<>>)!16 /\ Serving(<<>>, <<>>)!17 /\ Serving(<<>>, <<>>)!18
    /\ Serving(<<>>, <<>>)!19 /\ Serving(<<>>, <<>>)!20 /\ Serving(<<>>, <<>>)!21
    /\ Serving(<<>>, <<>>)!22 /\ Serving(<<>>, <<>>)!23 /\ Serving(<<>>, <<>>)!24
    /\ Serving(<<>>, <<>>)!25 /\ Serving(<<>>, <<>>)!26
    /\ eventLog = [sid \in SessionIds |-> <<>>]

\* A thread opens sessions while the server sends frames for them, which a
\* worker of the RPC client handles.
NextEarly ==
    \/ OpenStep("t1")
    \/ \E f \in EarlyFrames : Dispatch("w1", f)
    \/ EarlyStep("w1")

SpecEarly == InitEarly /\ [][NextEarly]_vars

\* The server has answered a session.create / session.resume call with the
\* session id `sid`.
Answered(sid) ==
    \E t \in Threads :
        /\ req[t].method \in {"session.create", "session.resume"}
        /\ req[t].status = "ok" /\ req[t].sid = sid

\* A thread calls stop() or forceStop(), whatever the client's state, and
\* runs it; the destructor is the call of forceStop().
StopStep(t) ==
    \/ \E o \in {"stop", "forceStop"} : CallOp(t, o)
    \/ StopSnapshot(t) \/ StopDestroy(t) \/ StopClear(t) \/ StopRpc(t) \/ StopCache(t)
    \/ StopKill(t) \/ StopReturn(t)
    \/ ForceClear(t) \/ ForceRpc(t) \/ ForceCache(t) \/ ForceKill(t) \/ ForceReturn(t)

\* A connected client, without sessions or with two, is stopped again and
\* again.
NextStop == StopStep("t1")

SpecStop ==
    /\ \E reg \in {<<>>} \cup {Registry(c1, c2) : c1, c2 \in Configs} : Serving(reg, <<>>)
    /\ [][NextStop]_vars

\* The client as stop() and forceStop() leave it.
Stopped ==
    /\ state = "Disconnected" /\ ~rpcClient
    /\ processPid = NoPid /\ ~fdsOpen
    /\ DOMAIN sessions = {} /\ modelsCache = <<>>

\* ---------------------------------------------------------- deleteSession()

\* The ids deleteSession() is called with: those the server gives to
\* sessions, and one it never gave.
DeleteIds == SessionIds \cup {"s9"}

\* The application calls deleteSession(sessionId).
CallDelete(t, sessionId) ==
    /\ pc[t] = "idle"
    /\ op' = [op EXCEPT ![t] = "deleteSession"]
    /\ pc' = [pc EXCEPT ![t] = "delete"]
    /\ loc' = [loc EXCEPT ![t] = [NoLoc EXCEPT !.sessionId = sessionId]]
    /\ ret' = [ret EXCEPT ![t] = "none"]
    /\ req' = [req EXCEPT ![t] = NoReq]
    /\ hs' = <<>>
    /\ lastSignal' = NoSignal
    /\ lastLookup' = "none"
    /\ UNCHANGED <<clientVars, inVars, procs, rpcVars, modelsAsked>>

\* Lines 322-323: throw without an RPC client; else issue session.delete.
DeleteRequest(t) ==
    /\ pc[t] = "delete"
    /\ IF ~rpcClient
       THEN /\ Return(t, "throw")
            /\ UNCHANGED req
       ELSE /\ req' = [req EXCEPT ![t] =
                         [NoReq EXCEPT !.method = "session.delete", !.status = "waiting",
                                       !.params = {<<"sessionId", loc[t].sessionId>>}]]
            /\ Goto(t, "delete_wait")
    /\ UNCHANGED <<clientVars, inVars, osVars, op, loc, obsVars, rpcVars>>

\* Mutant: any result of the call counts as the deletion.
DeleteAnswered(r) == r.status = "ok"

\* Line 324: result.value("success", false) of the result request() returned.
DeleteSucceeded(r) == r.status = "ok" /\ r.success

\* Lines 323-330: request() throws, or the result does not say success and
\* deleteSession() throws; else the entry is erased under sessionsMutex_.
DeleteDone(t) ==
    /\ pc[t] = "delete_wait"
    /\ Completed(req[t])
    /\ IF DeleteSucceeded(req[t])
       THEN /\ sMutex = "none"
            /\ sessions' = Erase(sessions, loc[t].sessionId)
            /\ Return(t, "ok")
       ELSE /\ Return(t, "throw")
            /\ UNCHANGED sessions
    /\ UNCHANGED <<cfgVars, inVars, state, rpcClient, processPid, fdsOpen, modelsCache, osVars,
                   op, loc, req, obsVars, rpcVars>>

\* A thread opens sessions and deletes sessions, one call after the other.
NextDelete ==
    \/ OpenStep("t1")
    \/ \E sessionId \in DeleteIds : CallDelete("t1", sessionId)
    \/ DeleteRequest("t1")
    \/ DeleteDone("t1")

SpecDelete == Serving(Registry(FullConfig, NoConfig), <<>>) /\ [][NextDelete]_vars

\* The keys of the payload of the call thread t made.
Keys(t) == {p[1] : p \in req[t].params}

\* C24: the payload of session.create / session.resume has the key of an
\* optional field exactly when the configuration sets the field; when the
\* call has returned, "tools" is in the payload iff the session has tools
\* registered, "requestPermission" iff it has a permission callback,
\* "requestUserInput" iff it has an input callback, "hooks" iff it has hooks;
\* the payload of session.resume holds the session id asked for.
C24_PayloadMatchesRegistration ==
    \A t \in Threads :
        req[t].method \in {"session.create", "session.resume"}
        => LET cfg == loc[t].cfg
               resume == req[t].method = "session.resume"
               s == loc[t].cur
           IN /\ \A f \in {"model", "streaming", "sessionId", "disableResume"} :
                    (f = "sessionId" /\ resume) \/
                    (f \in Keys(t) <=> /\ cfg[f]
                                       /\ f = "disableResume" => resume)
              /\ Keys(t) \subseteq {"model", "streaming", "sessionId", "disableResume", "tools",
                                    "requestPermission", "requestUserInput", "hooks"}
              /\ resume <=> loc[t].kind = "resumeSession"
              /\ resume => <<"sessionId", loc[t].sessionId>> \in req[t].params
              /\ resume => \A p \in req[t].params : p[1] = "sessionId" => p[2] = loc[t].sessionId
              /\ "tools" \in Keys(t) <=> cfg.tools # {}
              /\ (pc[t] = "idle" /\ ret[t] = "ok")
                 => /\ s.sid \in DOMAIN sessions /\ sessions[s.sid] = s
                    /\ "tools" \in Keys(t) <=> s.tools # {}
                    /\ "requestPermission" \in Keys(t) <=> s.perm
                    /\ "requestUserInput" \in Keys(t) <=> s.input
                    /\ "hooks" \in Keys(t) <=> s.hooks

\* resumeSession("s2", config) with tools and an input callback alone has
\* returned: the payload held sessionId s2, tools and requestUserInput.
C24_Witness ==
    /\ pc["t1"] = "idle" /\ op["t1"] = "resumeSession" /\ ret["t1"] = "ok"
    /\ loc["t1"].sessionId = "s2"
    /\ req["t1"].params = {<<"sessionId", "s2">>, <<"tools", "buildToolsJson">>,
                           <<"requestUserInput", "true">>}
    /\ req["t1"].sid \in DOMAIN sessions

\* C25: every subprocess the client spawned and that is still running is the
\* one recorded in the process handle, so that the next stop() or forceStop(),
\* which signals the recorded process alone, leaves no spawned process running.
C25_AtMostOneSubprocess ==
    /\ procs \subseteq {processPid}
    /\ \A t \in MainThreads :
          (pc[t] = "idle" /\ op[t] \in {"stop", "forceStop"}) => procs = {}

\* C26: when the state is Disconnected and no thread is inside an operation
\* the registry is empty, also when createSession() / resumeSession() ran on
\* one thread while stop() / forceStop() ran on another.
C26_DisconnectedMeansEmptyRegistry ==
    (state = "Disconnected" /\ \A t \in Threads : pc[t] = "idle") => DOMAIN sessions = {}

\* C27: a session.event or tool.call frame for the session id s that is
\* looked up after the server answered session.create / session.resume with s
\* finds the session: it is not dropped nor answered "Unknown session".
C27_FramesAfterCreateAreRouted ==
    [][\A w \in Workers :
          (/\ inb[w].pc = "lookup" /\ inb'[w].pc = "route"
           /\ inb[w].frame.method \in {"session.event", "tool.call"}
           /\ Answered(inb[w].frame.sid))
          => inb'[w].session = inb[w].frame.sid]_vars

\* C28: a subscriber whose unsubscribe function has returned is not called
\* again, also not by a broadcast that had started before on another thread.
C28_NoCallAfterUnsubscribe ==
    [][\A w \in Workers :
          (/\ inb[w].frame.method = "session.lifecycle"
           /\ Len(inb'[w].invoked) = Len(inb[w].invoked) + 1)
          => inb'[w].invoked[Len(inb'[w].invoked)].on \notin Unsubscribed]_vars

\* C29: stop() or forceStop() (the destructor's too) on a client that stop()
\* or forceStop() has stopped sends no signal, closes no descriptor, destroys
\* no session, returns an empty error list, and leaves the client as it was:
\* Disconnected, without sessions, RPC client, process or descriptors.
C29_StopIsIdempotent ==
    [][Stopped
       => /\ Stopped'
          /\ lastSignal' \in {lastSignal, NoSignal}
          /\ hs' \in {hs, <<>>}
          /\ procs' = procs
          /\ \A t \in MainThreads :
                pc'[t] # "idle" \/ pc[t] # "idle"
                => /\ loc'[t].attempted = <<>> /\ loc'[t].errors = <<>>
                   /\ pc'[t] = "idle" => ret'[t] = "ok"]_vars

\* stop() closed the descriptors and signalled the process; the forceStop()
\* that followed has returned and did neither.
C29_Witness ==
    /\ pc["t1"] = "idle" /\ op["t1"] = "forceStop" /\ ret["t1"] = "ok"
    /\ Stopped /\ procs = {}
    /\ lastSignal = NoSignal /\ hs = <<>>

\* C30: deleteSession(id) returns normally and removes the entry of id, and
\* no other, when the server answered session.delete with success; when the
\* call failed or the answer does not say success it throws and the registry
\* is as it was; no step of deleteSession() before that changes the registry.
C30_DeleteOnlyOnSuccess ==
    [][\A t \in MainThreads :
          LET id == loc[t].sessionId
          IN /\ pc[t] = "delete" => sessions' = sessions
             /\ (pc[t] = "delete_wait" /\ pc'[t] = "idle")
                => IF req[t].status = "ok" /\ req[t].success
                   THEN /\ ret'[t] = "ok"
                        /\ DOMAIN sessions' = DOMAIN sessions \ {id}
                        /\ \A k \in DOMAIN sessions' : sessions'[k] = sessions[k]
                   ELSE /\ ret'[t] = "throw"
                        /\ sessions' = sessions
             /\ (pc[t] = "delete_wait" /\ pc'[t] # "idle") => sessions' = sessions]_vars

\* The server answered the session.delete of s1 without success:
\* deleteSession("s1") has thrown and s1 and s2 are tracked as before.
C30_Witness ==
    /\ pc["t1"] = "idle" /\ op["t1"] = "deleteSession" /\ ret["t1"] = "throw"
    /\ loc["t1"].sessionId = "s1"
    /\ req["t1"].status = "ok" /\ ~req["t1"].success
    /\ sessions = Registry(FullConfig, NoConfig)

\* C31: whenever the read loop of the RPC client runs, all six inbound
\* methods have their handler; the read loop is started with the six
\* installed, no handler is installed or removed while it runs, and every
\* inbound frame a handler looks a session up for is handled with the six
\* installed.
C31_HandlersBeforeReadLoop ==
    /\ []((rpcClient /\ rpcRunning) => handlers = InboundMethods)
    /\ [][(rpcRunning' /\ ~rpcRunning)
          => (handlers = InboundMethods /\ handlers' = handlers)]_vars
    /\ [][(rpcRunning /\ rpcRunning') => handlers' = handlers]_vars
    /\ [][lastLookup' \notin {lastLookup, "none"} => handlers = InboundMethods]_vars

\* start() has sent its ping and waits: the read loop that will read the
\* response runs, the six handlers are installed, and a frame for a session
\* tracked since an earlier start was looked up.
C31_Witness ==
    /\ pc["t1"] = "start_wait" /\ req["t1"].method = "ping"
    /\ rpcClient /\ rpcRunning
    /\ handlers = InboundMethods
    /\ lastLookup # "none"

====
